---------------------------- MODULE Spec2Model ----------------------------
(***************************************************************************)
(* A model of the yescaptcha SDK client: the error check                   *)
(* (exceptions.py), the response envelopes (models.py) and the client      *)
(* workflow get_balance / create_task / get_task_result / solve            *)
(* (client.py).                                                            *)
(*                                                                         *)
(* Python values are modelled as follows.                                  *)
(*   Optional[T]   None is <<>>, a present value v is <<v>>.               *)
(*   JSON value    a record [ty, s, n]: ty is "absent" (the key is missing *)
(*                 or null), "str" (the string s), "int" (the integer n)   *)
(*                 or "obj" (an object; for a solution, {"token": s}).     *)
(*   exception     a record naming its class and its three attributes.     *)
(*   argument      a record [ty, s, l]: ty is "unset" (the keyword is not  *)
(*                 passed), "none", "str" (the string s) or "list" (the    *)
(*                 list of strings l).                                     *)
(*   time          poll_interval, timeout and elapsed are integers, i.e.   *)
(*                 the calls solve(task, poll_interval=1, timeout=3); a    *)
(*                 call in tenths of a second, solve(task, 0.1, 5), is the *)
(*                 call solve(task, 1, 50) of the model.                   *)
(***************************************************************************)
EXTENDS Integers, Sequences, FiniteSets, TLC

VARIABLES
    self,       \* the YesCaptchaClient object: client_key, base_url, timeout, _client
    op,         \* the public method the caller is running ("none" between calls)
    pc,         \* where that call stands
    args,       \* its arguments: task_id (get_task_result), poll_interval, timeout (solve)
    task_id,    \* solve's local task_id
    timeout,    \* solve's local timeout (the argument, or self.timeout when it is None)
    elapsed,    \* solve's local elapsed
    result,     \* solve's local result (the last TaskResultResponse)
    http,       \* the HTTP exchange of the call: request sent, response received
    outcome,    \* how the call ended: a returned value or a raised exception
    nCreate,    \* /createTask requests sent by the call
    nPolls,     \* /getTaskResult requests sent by the call
    nSleeps,    \* asyncio.sleep calls started by the call
    allNotReady,\* history: every poll so far was answered by a success envelope that is not ready
    clock,      \* wall-clock time since the call began (the code never reads it)
    chk,        \* one invocation of raise_for_error: its arguments and what it did
    task,       \* the caller's Task: the constructor arguments and the object built
    calls,      \* two solve calls running concurrently on self, and the service they talk to
    handles     \* the AsyncClient objects made so far, and the coroutines using self concurrently

vars == <<self, op, pc, args, task_id, timeout, elapsed, result, http, outcome,
          nCreate, nPolls, nSleeps, allNotReady, clock, chk, task, calls, handles>>

-----------------------------------------------------------------------------
(* Optional values *)

None == <<>>

Some(v) == <<v>>

Get(o) == o[1]

\* Mutant of Truthy: "if task_id is None" in place of "if not task_id".
Truthy_NoneOnly(o) == o # None

\* Python truthiness of an Optional[str]: None and "" are falsy.
Truthy(o) == o # None /\ Get(o) # ""

-----------------------------------------------------------------------------
(* JSON values of a response body *)

\* v holds the elements of an array and the members of an object.
JAbsent == [ty |-> "absent", s |-> "", n |-> 0, v |-> <<>>]

JStr(x) == [ty |-> "str", s |-> x, n |-> 0, v |-> <<>>]

JInt(k) == [ty |-> "int", s |-> "", n |-> k, v |-> <<>>]

JList(elements) == [ty |-> "list", s |-> "", n |-> 0, v |-> elements]

JObject(members) == [ty |-> "obj", s |-> "", n |-> 0, v |-> members]

\* The object {"token": tok}.
JObj(tok) == JObject([token |-> JStr(tok)])

\* The member k of the object j, absent if the object has no such key.
Member(j, k) == IF k \in DOMAIN j.v THEN j.v[k] ELSE JAbsent

-----------------------------------------------------------------------------
(* exceptions.py *)

YesCaptchaErrorClasses ==
    { "YesCaptchaError", "TaskTimeoutError", "InsufficientBalanceError",
      "InvalidKeyError", "TaskUnsolvableError", "IPBlockedError",
      "NoSlotAvailableError", "TaskNotSupportedError", "InvalidTaskIdError",
      "BadRequestError", "ServiceUnavailableError" }

\* An exception object. YesCaptchaError.__init__ stores the three arguments
\* as given; exceptions of other libraries carry none of them.
Exc(cls, id, code, desc) ==
    [kind |-> "raise", cls |-> cls, error_id |-> id, error_code |-> code,
     error_description |-> desc, value |-> None]

ForeignExc(cls) == Exc(cls, 0, None, None)

Returned(v) ==
    [kind |-> "return", cls |-> "", error_id |-> 0, error_code |-> None,
     error_description |-> None, value |-> Some(v)]

NoOutcome ==
    [kind |-> "none", cls |-> "", error_id |-> 0, error_code |-> None,
     error_description |-> None, value |-> None]

\* Mutant of ERROR_CODE_MAP: the entry of ERROR_IP_BANNED is missing.
ERROR_CODE_MAP_NoIpBanned ==
    ("ERROR_TASK_TIMEOUT" :> "TaskTimeoutError") @@
    ("ERROR_ZERO_BALANCE" :> "InsufficientBalanceError") @@
    ("ERROR_KEY_DOES_NOT_EXIST" :> "InvalidKeyError") @@
    ("ERROR_CAPTCHA_UNSOLVABLE" :> "TaskUnsolvableError") @@
    ("ERROR_IP_BLOCKED_5MIN" :> "IPBlockedError") @@
    ("ERROR_NO_SLOT_AVAILABLE" :> "NoSlotAvailableError") @@
    ("ERROR_NO_SLOT_AVAILABLE_BLOCK" :> "NoSlotAvailableError") @@
    ("ERROR_TASK_NOT_SUPPORTED" :> "TaskNotSupportedError") @@
    ("ERROR_TASKID_INVALID" :> "InvalidTaskIdError") @@
    ("ERROR_NO_SUCH_CAPCHA_ID" :> "InvalidTaskIdError") @@
    ("ERROR_BAD_REQUEST" :> "BadRequestError") @@
    ("ERROR_SERVICE_UNAVALIABLE" :> "ServiceUnavailableError")

ERROR_CODE_MAP ==
    ("ERROR_TASK_TIMEOUT" :> "TaskTimeoutError") @@
    ("ERROR_ZERO_BALANCE" :> "InsufficientBalanceError") @@
    ("ERROR_KEY_DOES_NOT_EXIST" :> "InvalidKeyError") @@
    ("ERROR_CAPTCHA_UNSOLVABLE" :> "TaskUnsolvableError") @@
    ("ERROR_IP_BLOCKED_5MIN" :> "IPBlockedError") @@
    ("ERROR_IP_BANNED" :> "IPBlockedError") @@
    ("ERROR_NO_SLOT_AVAILABLE" :> "NoSlotAvailableError") @@
    ("ERROR_NO_SLOT_AVAILABLE_BLOCK" :> "NoSlotAvailableError") @@
    ("ERROR_TASK_NOT_SUPPORTED" :> "TaskNotSupportedError") @@
    ("ERROR_TASKID_INVALID" :> "InvalidTaskIdError") @@
    ("ERROR_NO_SUCH_CAPCHA_ID" :> "InvalidTaskIdError") @@
    ("ERROR_BAD_REQUEST" :> "BadRequestError") @@
    ("ERROR_SERVICE_UNAVALIABLE" :> "ServiceUnavailableError")

\* Mutant of DictGet: d[key] in place of d.get(key, default).
DictGet_NoDefault(d, key, default) == IF key \in DOMAIN d THEN d[key] ELSE "KeyError"

\* dict.get(key, default)
DictGet(d, key, default) == IF key \in DOMAIN d THEN d[key] ELSE default

\* Mutant of raise_for_error: it returns only when there is no error code
\* either ("if error_id == 0 and not error_code").
raise_for_error_ChecksCode(error_id, error_code, error_description) ==
    IF error_id = 0 /\ (error_code = None \/ Get(error_code) = "")
    THEN NoOutcome
    ELSE LET key == IF error_code # None THEN Get(error_code) ELSE ""
         IN  Exc(IF key \in DOMAIN ERROR_CODE_MAP THEN ERROR_CODE_MAP[key]
                 ELSE "YesCaptchaError",
                 error_id, error_code, error_description)

\* raise_for_error(error_id, error_code, error_description): NoOutcome when it
\* returns None, the exception when it raises. "error_code or ''" is "" for
\* None and for "".
raise_for_error(error_id, error_code, error_description) ==
    IF error_id = 0
    THEN NoOutcome
    ELSE LET key == IF Truthy(error_code) THEN Get(error_code) ELSE ""
             exception_class == DictGet(ERROR_CODE_MAP, key, "YesCaptchaError")
         IN  Exc(exception_class, error_id, error_code, error_description)

-----------------------------------------------------------------------------
(* models.py: the response envelopes and their validation (pydantic) *)

\* errorId: int -- required; a missing or null value fails validation.
IntFieldOk(j) == j.ty = "int"

\* Optional[str] = None: a missing or null value is None, a string is kept,
\* anything else fails validation (pydantic does not turn a number into str).
OptStrFieldOk(j) == j.ty \in {"absent", "str"}

OptStrField(j) == IF j.ty = "str" THEN Some(j.s) ELSE None

\* Optional[float] = None (BalanceResponse.balance): a number or nothing.
OptNumFieldOk(j) == j.ty \in {"absent", "int"}

OptNumField(j) == IF j.ty = "int" THEN Some(j.n) ELSE None

\* Mutant of StatusFieldOk: status is declared Optional[str].
StatusFieldOk_AnyString(j) == j.ty \in {"absent", "str"}

\* Optional[Literal["processing", "ready"]] = None
StatusFieldOk(j) ==
    j.ty = "absent" \/ (j.ty = "str" /\ j.s \in {"processing", "ready"})

\* The strings pydantic's int validation accepts (lax mode) among those
\* the model uses, with the int each becomes.
IntStrings == [i \in {"0", "2"} |-> IF i = "0" THEN 0 ELSE 2]

\* An element of list[int]: an int is kept, a numeric string is converted.
IntOk(j) == j.ty = "int" \/ (j.ty = "str" /\ j.s \in DOMAIN IntStrings)

IntOf(j) == IF j.ty = "int" THEN j.n ELSE IntStrings[j.s]

\* The fields Solution declares: five Optional[str], objects and cookies.
SolutionStrFields == {"gRecaptchaResponse", "token", "text", "userAgent", "content"}

SolutionFields == SolutionStrFields \cup {"objects", "cookies"}

\* objects: Optional[list[int]] = None
ObjectsFieldOk(j) ==
    j.ty = "absent" \/ (j.ty = "list" /\ \A i \in DOMAIN j.v : IntOk(j.v[i]))

ObjectsField(j) ==
    IF j.ty = "list" THEN Some([i \in DOMAIN j.v |-> IntOf(j.v[i])]) ELSE None

\* cookies: Optional[dict[str, str]] = None
CookiesFieldOk(j) ==
    j.ty = "absent" \/ (j.ty = "obj" /\ \A k \in DOMAIN j.v : j.v[k].ty = "str")

CookiesField(j) ==
    IF j.ty = "obj" THEN Some([k \in DOMAIN j.v |-> j.v[k].s]) ELSE None

\* Solution.model_validate(j) succeeds.
Solution_valid(j) ==
    /\ j.ty = "obj"
    /\ \A f \in SolutionStrFields : OptStrFieldOk(Member(j, f))
    /\ ObjectsFieldOk(Member(j, "objects"))
    /\ CookiesFieldOk(Member(j, "cookies"))

\* Optional[Solution] = None
SolutionFieldOk(j) == j.ty = "absent" \/ Solution_valid(j)

\* Mutant of Solution: the token of the solution object is not kept.
Solution_NoToken(j) ==
    [gRecaptchaResponse |-> OptStrField(Member(j, "gRecaptchaResponse")),
     token |-> None,
     text |-> OptStrField(Member(j, "text")),
     objects |-> ObjectsField(Member(j, "objects")),
     cookies |-> CookiesField(Member(j, "cookies")),
     userAgent |-> OptStrField(Member(j, "userAgent")),
     content |-> OptStrField(Member(j, "content")),
     model_extra |-> [k \in DOMAIN j.v \ SolutionFields |-> j.v[k]]]

\* Mutant of Solution: the class ignores the keys it does not declare.
Solution_ExtraIgnored(j) ==
    [gRecaptchaResponse |-> OptStrField(Member(j, "gRecaptchaResponse")),
     token |-> OptStrField(Member(j, "token")),
     text |-> OptStrField(Member(j, "text")),
     objects |-> ObjectsField(Member(j, "objects")),
     cookies |-> CookiesField(Member(j, "cookies")),
     userAgent |-> OptStrField(Member(j, "userAgent")),
     content |-> OptStrField(Member(j, "content")),
     model_extra |-> [k \in {} |-> JAbsent]]

\* The object Solution.model_validate(j) builds: the declared fields, and
\* (model_config extra = "allow") every other key with its value as sent.
Solution(j) ==
    [gRecaptchaResponse |-> OptStrField(Member(j, "gRecaptchaResponse")),
     token |-> OptStrField(Member(j, "token")),
     text |-> OptStrField(Member(j, "text")),
     objects |-> ObjectsField(Member(j, "objects")),
     cookies |-> CookiesField(Member(j, "cookies")),
     userAgent |-> OptStrField(Member(j, "userAgent")),
     content |-> OptStrField(Member(j, "content")),
     model_extra |-> [k \in DOMAIN j.v \ SolutionFields |-> j.v[k]]]

SolutionField(j) == IF j.ty = "obj" THEN Some(Solution(j)) ELSE None

EnvelopeOk(data) ==
    /\ IntFieldOk(data.errorId)
    /\ OptStrFieldOk(data.errorCode)
    /\ OptStrFieldOk(data.errorDescription)

\* XResponse_valid(data): model_validate(data) succeeds; XResponse(data) is
\* the object it builds. Keys the class does not declare are ignored.
BalanceResponse_valid(data) == EnvelopeOk(data) /\ OptNumFieldOk(data.balance)

BalanceResponse(data) ==
    [errorId |-> data.errorId.n,
     errorCode |-> OptStrField(data.errorCode),
     errorDescription |-> OptStrField(data.errorDescription),
     balance |-> OptNumField(data.balance)]

CreateTaskResponse_valid(data) == EnvelopeOk(data) /\ OptStrFieldOk(data.taskId)

CreateTaskResponse(data) ==
    [errorId |-> data.errorId.n,
     errorCode |-> OptStrField(data.errorCode),
     errorDescription |-> OptStrField(data.errorDescription),
     taskId |-> OptStrField(data.taskId)]

TaskResultResponse_valid(data) ==
    EnvelopeOk(data) /\ StatusFieldOk(data.status) /\ SolutionFieldOk(data.solution)

TaskResultResponse(data) ==
    [errorId |-> data.errorId.n,
     errorCode |-> OptStrField(data.errorCode),
     errorDescription |-> OptStrField(data.errorDescription),
     status |-> OptStrField(data.status),
     solution |-> SolutionField(data.solution)]

-----------------------------------------------------------------------------
(* models.py: the Task variants (pydantic BaseModel classes) *)

\* A keyword argument or a field's value: not passed, None, or a value.
PUnset == [ty |-> "unset", s |-> "", l |-> <<>>, b |-> FALSE]

PNone == [ty |-> "none", s |-> "", l |-> <<>>, b |-> FALSE]

PStr(s) == [ty |-> "str", s |-> s, l |-> <<>>, b |-> FALSE]

PList(l) == [ty |-> "list", s |-> "", l |-> l, b |-> FALSE]

PBool(b) == [ty |-> "bool", s |-> "", l |-> <<>>, b |-> b]

\* A dict, known by a label: nothing reads its content.
PDict(s) == [ty |-> "dict", s |-> s, l |-> <<>>, b |-> FALSE]

\* "name: T" and "name: T = Field(...)": no default, None is not accepted.
Required(ty) == [ty |-> ty, optional |-> FALSE, default |-> PUnset]

\* "name: Optional[T] = None".
OptionalField(ty) == [ty |-> ty, optional |-> TRUE, default |-> PNone]

\* "name: T = d": a default that is not None, None is not accepted.
Defaulted(ty, d) == [ty |-> ty, optional |-> FALSE, default |-> d]

ImageToTextTask ==
    [types |-> {"ImageToTextTask", "ImageToTextTaskMuggle", "ImageToTextTaskM1"},
     type |-> "ImageToTextTaskMuggle",
     fields |-> [body |-> Required("str"), project_name |-> OptionalField("str")]]

NoCaptchaTaskProxyless ==
    [types |-> {"NoCaptchaTaskProxyless", "RecaptchaV2TaskProxyless"},
     type |-> "NoCaptchaTaskProxyless",
     fields |-> [websiteURL |-> Required("str"), websiteKey |-> Required("str"),
                 isInvisible |-> Defaulted("bool", PBool(FALSE))]]

RecaptchaV2EnterpriseTaskProxyless ==
    [types |-> {"RecaptchaV2EnterpriseTaskProxyless"},
     type |-> "RecaptchaV2EnterpriseTaskProxyless",
     fields |-> [websiteURL |-> Required("str"), websiteKey |-> Required("str"),
                 enterprisePayload |-> OptionalField("dict")]]

RecaptchaV3TaskProxyless ==
    [types |-> {"RecaptchaV3TaskProxyless", "RecaptchaV3TaskProxylessM1"},
     type |-> "RecaptchaV3TaskProxyless",
     fields |-> [websiteURL |-> Required("str"), websiteKey |-> Required("str"),
                 pageAction |-> Required("str")]]

RecaptchaV3EnterpriseTask ==
    [types |-> {"RecaptchaV3EnterpriseTask", "RecaptchaV3EnterpriseTaskProxyless"},
     type |-> "RecaptchaV3EnterpriseTask",
     fields |-> [websiteURL |-> Required("str"), websiteKey |-> Required("str"),
                 pageAction |-> Required("str"),
                 enterprisePayload |-> OptionalField("dict")]]

HCaptchaTaskProxyless ==
    [types |-> {"HCaptchaTaskProxyless"},
     type |-> "HCaptchaTaskProxyless",
     fields |-> [websiteURL |-> Required("str"), websiteKey |-> Required("str")]]

\* queries is Field(...): required, without a length constraint.
HCaptchaClassification ==
    [types |-> {"HCaptchaClassification"},
     type |-> "HCaptchaClassification",
     fields |-> [queries |-> Required("list"), question |-> OptionalField("str"),
                 anchors |-> OptionalField("list")]]

ReCaptchaV2Classification ==
    [types |-> {"ReCaptchaV2Classification"},
     type |-> "ReCaptchaV2Classification",
     fields |-> [image |-> Required("str"), question |-> Required("str")]]

FunCaptchaClassification ==
    [types |-> {"FunCaptchaClassification"},
     type |-> "FunCaptchaClassification",
     fields |-> [images |-> Required("list"), question |-> Required("str")]]

TurnstileTaskProxyless ==
    [types |-> {"TurnstileTaskProxyless", "TurnstileTaskProxylessM1"},
     type |-> "TurnstileTaskProxyless",
     fields |-> [websiteURL |-> Required("str"), websiteKey |-> Required("str")]]

CloudFlareTask ==
    [types |-> {"CloudFlareTaskS2", "CloudFlareTaskS3"},
     type |-> "CloudFlareTaskS3",
     fields |-> [websiteURL |-> Required("str"), proxy |-> Required("str"),
                 userAgent |-> OptionalField("str"),
                 waitLoad |-> Defaulted("bool", PBool(FALSE)),
                 requiredCookies |-> OptionalField("list"),
                 blockImage |-> Defaulted("bool", PBool(FALSE)),
                 postData |-> OptionalField("dict")]]

\* Task = Union[...]: the variants, by class name.
Task ==
    [ImageToTextTask |-> ImageToTextTask,
     NoCaptchaTaskProxyless |-> NoCaptchaTaskProxyless,
     RecaptchaV2EnterpriseTaskProxyless |-> RecaptchaV2EnterpriseTaskProxyless,
     RecaptchaV3TaskProxyless |-> RecaptchaV3TaskProxyless,
     RecaptchaV3EnterpriseTask |-> RecaptchaV3EnterpriseTask,
     HCaptchaTaskProxyless |-> HCaptchaTaskProxyless,
     HCaptchaClassification |-> HCaptchaClassification,
     ReCaptchaV2Classification |-> ReCaptchaV2Classification,
     FunCaptchaClassification |-> FunCaptchaClassification,
     TurnstileTaskProxyless |-> TurnstileTaskProxyless,
     CloudFlareTask |-> CloudFlareTask]

\* One keyword argument against its field: a value of the field's type, None
\* where the field is Optional, or not passed where the field has a default.
FieldOk(sp, v) ==
    \/ v.ty = sp.ty
    \/ v.ty = "none" /\ sp.optional
    \/ v.ty = "unset" /\ sp.default # PUnset

\* cls(**kw) validates: type is one of the Literal's strings or not passed,
\* and every field's argument fits the field.  Keywords that name no field
\* are ignored (pydantic's default for extra keywords).
BaseModel_valid(cls, kw) ==
    /\ kw.type = PUnset \/ (kw.type.ty = "str" /\ kw.type.s \in cls.types)
    /\ \A f \in DOMAIN cls.fields : FieldOk(cls.fields[f], kw[f])

\* The object the constructor builds from valid arguments: every declared
\* field, with its default where the argument was not passed.
BaseModel(cls, kw) ==
    [f \in DOMAIN cls.fields \cup {"type"} |->
        IF f = "type"
        THEN IF kw.type = PUnset THEN PStr(cls.type) ELSE kw.type
        ELSE IF kw[f] = PUnset THEN cls.fields[f].default ELSE kw[f]]

\* Mutant of model_dump: model_dump() without exclude_none.
model_dump_WithNone(t) == t

\* task.model_dump(exclude_none=True): the fields whose value is not None.
model_dump(t) == [f \in {g \in DOMAIN t : t[g] # PNone} |-> t[f]]

\* No object: the constructor has not run, or it raised ValidationError.
NoTask == [f \in {} |-> PNone]

-----------------------------------------------------------------------------
(* client.py: solve's local result *)

\* solve's local result before the first poll.
NoResult ==
    [errorId |-> 0, errorCode |-> None, errorDescription |-> None,
     status |-> None, solution |-> None]

-----------------------------------------------------------------------------
(* client.py: what the HTTP collaborator can answer *)

\* A response body: a JSON object with these keys (absent ones included).
Body(eid, code, desc, tid, st, sol, bal) ==
    [errorId |-> eid, errorCode |-> code, errorDescription |-> desc,
     taskId |-> tid, status |-> st, solution |-> sol, balance |-> bal]

EmptyBody == Body(JAbsent, JAbsent, JAbsent, JAbsent, JAbsent, JAbsent, JAbsent)

\* What client.post / raise_for_status / json() can do with one request:
\*   "error"    post raises exc (a network error, an HTTP timeout);
\*   "status"   a non-2xx response: raise_for_status raises HTTPStatusError;
\*   "nonjson"  a 2xx response whose body is not JSON: json() raises;
\*   "json"     a 2xx response with the JSON object body.
NetError(exc) == [kind |-> "error", exc |-> exc, body |-> EmptyBody]

NetStatus == [kind |-> "status", exc |-> "", body |-> EmptyBody]

NetNonJson == [kind |-> "nonjson", exc |-> "", body |-> EmptyBody]

NetJson(body) == [kind |-> "json", exc |-> "", body |-> body]

NoResponse == [kind |-> "none", exc |-> "", body |-> EmptyBody]

NetworkErrors == {"ConnectError", "ReadTimeout"}

TransportFailures == {NetError(e) : e \in NetworkErrors} \cup {NetStatus}

\* Mutant of _request: a transport failure is wrapped in a YesCaptchaError.
_request_WrapsTransport(r) ==
    CASE r.kind \in {"error", "status"} ->
             Exc("YesCaptchaError", 1, Some("ERROR_TRANSPORT"), None)
      [] r.kind = "nonjson" -> ForeignExc("JSONDecodeError")
      [] OTHER              -> Returned(r.body)

\* YesCaptchaClient._request, given what the collaborator answers: the
\* parsed body, or the exception that post, raise_for_status or json raises.
_request(r) ==
    CASE r.kind = "error"   -> ForeignExc(r.exc)
      [] r.kind = "status"  -> ForeignExc("HTTPStatusError")
      [] r.kind = "nonjson" -> ForeignExc("JSONDecodeError")
      [] OTHER              -> Returned(r.body)

\* The three endpoint methods, given the collaborator's answer to their one
\* request: _request, model_validate, raise_for_error, return response.
get_balance(r) ==
    LET d == _request(r) IN
    IF d.kind = "raise" THEN d
    ELSE LET data == Get(d.value) IN
         IF ~BalanceResponse_valid(data) THEN ForeignExc("ValidationError")
         ELSE LET response == BalanceResponse(data)
                  e == raise_for_error(response.errorId, response.errorCode,
                                       response.errorDescription)
              IN  IF e.kind = "raise" THEN e ELSE Returned(response)

create_task(r) ==
    LET d == _request(r) IN
    IF d.kind = "raise" THEN d
    ELSE LET data == Get(d.value) IN
         IF ~CreateTaskResponse_valid(data) THEN ForeignExc("ValidationError")
         ELSE LET response == CreateTaskResponse(data)
                  e == raise_for_error(response.errorId, response.errorCode,
                                       response.errorDescription)
              IN  IF e.kind = "raise" THEN e ELSE Returned(response)

get_task_result(r) ==
    LET d == _request(r) IN
    IF d.kind = "raise" THEN d
    ELSE LET data == Get(d.value) IN
         IF ~TaskResultResponse_valid(data) THEN ForeignExc("ValidationError")
         ELSE LET response == TaskResultResponse(data)
                  e == raise_for_error(response.errorId, response.errorCode,
                                       response.errorDescription)
              IN  IF e.kind = "raise" THEN e ELSE Returned(response)

-----------------------------------------------------------------------------
(* The inputs: what the caller passes and what the service answers *)

\* The most /getTaskResult requests one solve call sends in the model.
MaxPolls == 4

\* YesCaptchaClient(client_key, base_url, timeout): the timeouts tried.
ClientTimeouts == {2}

\* solve(task, poll_interval, timeout): the arguments tried.
PollIntervals == {0, 1}

TimeoutArgs == {None, Some(0), Some(3), Some(50)}

\* solve's poll_interval parameter when the caller does not pass it.
DefaultPollInterval == 3

\* solve(task, poll_interval=...): None is the call that leaves it out.
PollIntervalArgs == {None} \cup {Some(p) : p \in PollIntervals}

\* How long a request takes to be answered, and how much longer than asked
\* asyncio.sleep takes to wake up, on the wall clock.
RoundTrips == {0, 1}

SleepLateness == {0, 1}

\* get_task_result(task_id): the arguments tried.
TaskIdArgs == {"task-1", "stale-task"}

ErrorIds == {JAbsent, JInt(0), JInt(1), JInt(2)}

ErrorCodes ==
    { JAbsent, JStr(""), JStr("ERROR_TASKID_INVALID"),
      JStr("ERROR_CAPTCHA_UNSOLVABLE"), JStr("ERROR_SOMETHING_NEW") }

ErrorDescriptions == {JAbsent, JStr("description")}

TaskIds == {JAbsent, JStr(""), JStr("task-1")}

Statuses == {JAbsent, JStr("processing"), JStr("ready"), JStr("failed")}

\* A solution with a key Solution does not declare and a list of indexes of
\* which one is sent as a string, and the solution of the polling scenario.
Solutions ==
    { JAbsent,
      JObject([token |-> JStr("token-1"), objects |-> JList(<<JInt(0), JStr("2")>>),
               customField |-> JStr("customValue")]),
      JObj("solved-token-xyz") }

Balances == {JAbsent, JInt(1000)}

BalanceAnswers ==
    TransportFailures \cup {NetNonJson} \cup
    { NetJson(Body(e, c, d, JAbsent, JAbsent, JAbsent, b)) :
        e \in ErrorIds, c \in ErrorCodes, d \in ErrorDescriptions, b \in Balances }

CreateTaskAnswers ==
    TransportFailures \cup {NetNonJson} \cup
    { NetJson(Body(e, c, d, t, JAbsent, JAbsent, JAbsent)) :
        e \in ErrorIds, c \in ErrorCodes, d \in ErrorDescriptions, t \in TaskIds }

TaskResultAnswers ==
    TransportFailures \cup {NetNonJson} \cup
    { NetJson(Body(e, c, d, JAbsent, st, sol, JAbsent)) :
        e \in ErrorIds, c \in ErrorCodes, d \in ErrorDescriptions,
        st \in Statuses, sol \in Solutions }

\* What the service answers to a poll of solve: every success envelope that
\* differs in status or solution, every error envelope, the malformed ones,
\* and the transport failures.
PollAnswers ==
    TransportFailures \cup {NetNonJson} \cup
    { NetJson(Body(JInt(0), c, JAbsent, JAbsent, st, sol, JAbsent)) :
        c \in {JAbsent, JStr("ERROR_TASKID_INVALID")},
        st \in Statuses, sol \in Solutions } \cup
    { NetJson(Body(e, c, d, JAbsent, x[1], x[2], JAbsent)) :
        e \in {JAbsent, JInt(1), JInt(2)}, c \in ErrorCodes, d \in ErrorDescriptions,
        x \in { <<JAbsent, JAbsent>>, <<JStr("processing"), JAbsent>>,
                <<JStr("ready"), JObj("solved-token-xyz")>>, <<JStr("failed"), JAbsent>> } }

\* What the service answers, poll after poll, to the polls of one task; once
\* the list is used up it answers "processing".
Scripts ==
    { <<>>, <<"ready">>, <<"processing", "ready">>, <<"error">>,
      <<"processing", "error">>, <<"processing", "processing", "ready">> }

\* The timeout arguments of the two concurrent calls.
PairTimeoutArgs == {None, Some(3)}

\* The names of the Task variants.
TaskClasses == DOMAIN Task

\* A string that only FunCaptchaClassification enumerates for its type.
TypeArgs(cls) ==
    {PUnset} \cup {PStr(v) : v \in cls.types} \cup {PStr("FunCaptchaClassification")}

\* "task.type = v" after construction: the values tried.
TypeAssignments == {"HCaptchaClassification", "FunCaptchaClassification"}

\* The values tried for an argument of each type.
ValueArgs(ty) ==
    CASE ty = "str"  -> {PStr("0x1234")}
      [] ty = "list" -> {PList(<<>>), PList(<<"img-1">>)}
      [] ty = "bool" -> {PBool(FALSE), PBool(TRUE)}
      [] ty = "dict" -> {PDict("payload-1")}

\* The arguments tried for a field: not passed, a value, None if Optional.
FieldArgs(sp) ==
    {PUnset} \cup ValueArgs(sp.ty) \cup (IF sp.optional THEN {PNone} ELSE {})

\* A keyword that names no field of any variant.
UnknownKeyword == "no_such_field"

Keywords(cls) == DOMAIN cls.fields \cup {"type", UnknownKeyword}

KeywordArgs(cls, f) ==
    CASE f = "type"         -> TypeArgs(cls)
      [] f = UnknownKeyword -> {PUnset, PStr("0x1234")}
      [] OTHER              -> FieldArgs(cls.fields[f])

\* cls(**kw): the keyword arguments tried, over the keywords in names.
RECURSIVE TaskArgsOver(_, _)
TaskArgsOver(cls, names) ==
    IF names = {}
    THEN {[f \in {} |-> PUnset]}
    ELSE LET f == CHOOSE n \in names : TRUE
         IN  {(f :> v) @@ kw : v \in KeywordArgs(cls, f),
                               kw \in TaskArgsOver(cls, names \ {f})}

TaskArgs(cls) == TaskArgsOver(cls, Keywords(cls))

\* cls(**given): the keywords of given are passed, no other.
Passing(cls, given) ==
    [f \in Keywords(cls) |-> IF f \in DOMAIN given THEN given[f] ELSE PUnset]

\* The arguments raise_for_error is tried on: every code of the table, an
\* unknown code, the empty code and no code.
CheckErrorIds == {0, 1, 2, -1}

CheckErrorCodes ==
    {Some(c) : c \in
        { "ERROR_TASK_TIMEOUT", "ERROR_ZERO_BALANCE", "ERROR_KEY_DOES_NOT_EXIST",
          "ERROR_CAPTCHA_UNSOLVABLE", "ERROR_IP_BLOCKED_5MIN", "ERROR_IP_BANNED",
          "ERROR_NO_SLOT_AVAILABLE", "ERROR_NO_SLOT_AVAILABLE_BLOCK",
          "ERROR_TASK_NOT_SUPPORTED", "ERROR_TASKID_INVALID",
          "ERROR_NO_SUCH_CAPCHA_ID", "ERROR_BAD_REQUEST",
          "ERROR_SERVICE_UNAVALIABLE" }} \cup
    {None, Some(""), Some("ERROR_SOMETHING_NEW"), Some("error_bad_request")}

CheckErrorDescriptions == {None, Some(""), Some("description")}

-----------------------------------------------------------------------------
(* client.py: the state of a client and of one call *)

NoArgs ==
    [task_id |-> None, poll_interval |-> 0, poll_interval_given |-> FALSE,
     timeout |-> None]

NoExchange ==
    [endpoint |-> "", clientKey |-> "", task |-> None, taskId |-> None,
     timeout |-> 0, state |-> "none", resp |-> NoResponse]

NoCheck ==
    [state |-> "none", error_id |-> 0, error_code |-> None,
     error_description |-> None, out |-> NoOutcome]

\* httpx.AsyncClient(timeout=t): the handle and the timeout it applies to
\* each request.
AsyncClient(t) == [timeout |-> t]

\* __init__
NewClient(client_key, base_url, t) ==
    [client_key |-> client_key, base_url |-> base_url, timeout |-> t,
     _client |-> None]

\* The locals of a call that has not started.
Idle ==
    /\ op = "none"
    /\ pc = "idle"
    /\ args = NoArgs
    /\ task_id = None
    /\ timeout = 0
    /\ elapsed = 0
    /\ result = NoResult
    /\ http = NoExchange
    /\ outcome = NoOutcome
    /\ nCreate = 0
    /\ nPolls = 0
    /\ nSleeps = 0
    /\ allNotReady = TRUE
    /\ clock = 0

\* The two coroutines that run solve concurrently on one client.
Calls == {1, 2}

\* The task ids the service hands out, in the order of the createTask requests.
ServiceTaskIds == {"task-1", "task-2"}

\* One solve call before it starts: where it stands, its request in flight,
\* how it ended, the task id its createTask returned, the task ids it polled
\* with, its arguments, and what the service will answer to polls of its task.
NoCall ==
    [pc |-> "idle", req |-> NoExchange, outcome |-> NoOutcome, created |-> None,
     polled |-> {}, nPolls |-> 0, nSleeps |-> 0, args |-> NoArgs, script |-> <<>>]

\* The locals of one solve call.
NoLocals == [task_id |-> None, timeout |-> 0, elapsed |-> 0]

NoCalls ==
    [ctl |-> [c \in Calls |-> NoCall],
     loc |-> [c \in Calls |-> NoLocals],
     service |-> [created |-> 0,
                  script |-> [t \in ServiceTaskIds |-> <<>>],
                  polls |-> [t \in ServiceTaskIds |-> 0]]]

\* The coroutines that call methods of self concurrently.
Coroutines == {1, 2}

\* The AsyncClient objects the model lets one client make.
MaxHandles == 3

\* A coroutine that is in no method of self.
NoMethod == [method |-> "none", pc |-> "idle", handle |-> None, outcome |-> "none"]

\* No AsyncClient made yet, every coroutine outside self's methods.
NoHandles == [is_closed |-> <<>>, co |-> [c \in Coroutines |-> NoMethod]]

\* The caller's task before its constructor has run on the arguments kw.
TaskFrom(c, kw) == [state |-> "args", cls |-> c, kw |-> kw, obj |-> NoTask]

\* The constructor runs: the object is built, or ValidationError is raised.
Constructed(c, kw) ==
    IF BaseModel_valid(Task[c], kw)
    THEN [state |-> "built", cls |-> c, kw |-> kw, obj |-> BaseModel(Task[c], kw)]
    ELSE [state |-> "rejected", cls |-> c, kw |-> kw, obj |-> NoTask]

\* The task of the calls whose task does not matter:
\* HCaptchaClassification(queries=["img-1"]).
SomeTask ==
    Constructed("HCaptchaClassification",
                Passing(HCaptchaClassification, [queries |-> PList(<<"img-1">>)]))

Init ==
    /\ self \in {NewClient("key", "https://api.yescaptcha.com", t) : t \in ClientTimeouts}
    /\ Idle
    /\ chk = NoCheck
    /\ task = SomeTask
    /\ calls = NoCalls
    /\ handles = NoHandles

\* Mutant of Send: the endpoint is appended to self.base_url instead of to a
\* local url.
Send_UrlOnSelf(endpoint, tid) ==
    LET client == IF self._client = None THEN AsyncClient(self.timeout)
                                         ELSE Get(self._client)
    IN  /\ self' = [self EXCEPT !._client = Some(client),
                                !.base_url = self.base_url \o endpoint]
        /\ http' = [endpoint |-> endpoint, clientKey |-> self.client_key,
                    task |-> IF endpoint = "/createTask"
                             THEN Some(model_dump(task.obj)) ELSE None,
                    taskId |-> tid, timeout |-> client.timeout,
                    state |-> "pending", resp |-> NoResponse]

\* Mutant of Send: the payload carries the caller's task_id argument, which
\* solve does not have, instead of the task id handed to get_task_result.
Send_ArgTaskId(endpoint, tid) ==
    LET client == IF self._client = None THEN AsyncClient(self.timeout)
                                         ELSE Get(self._client)
    IN  /\ self' = [self EXCEPT !._client = Some(client)]
        /\ http' = [endpoint |-> endpoint, clientKey |-> self.client_key,
                    task |-> IF endpoint = "/createTask"
                             THEN Some(model_dump(task.obj)) ELSE None,
                    taskId |-> args.task_id, timeout |-> client.timeout,
                    state |-> "pending", resp |-> NoResponse]

\* The client property (the AsyncClient is made on first use) and the start
\* of _request: one POST of the payload to the endpoint; the payload of
\* /createTask carries task.model_dump(exclude_none=True).
Send(endpoint, tid) ==
    LET client == IF self._client = None THEN AsyncClient(self.timeout)
                                         ELSE Get(self._client)
    IN  /\ self' = [self EXCEPT !._client = Some(client)]
        /\ http' = [endpoint |-> endpoint, clientKey |-> self.client_key,
                    task |-> IF endpoint = "/createTask"
                             THEN Some(model_dump(task.obj)) ELSE None,
                    taskId |-> tid, timeout |-> client.timeout,
                    state |-> "pending", resp |-> NoResponse]

\* The collaborator answers the pending request with r.
Receive(r) == http' = [http EXCEPT !.state = "answered", !.resp = r]

-----------------------------------------------------------------------------
(* client.py: get_balance, create_task and get_task_result called directly *)

solveLocals == <<task_id, timeout, elapsed, result, allNotReady>>

counters == <<nCreate, nPolls, nSleeps, clock>>

GetBalanceCall ==
    /\ op = "none"
    /\ op' = "get_balance"
    /\ pc' = "request"
    /\ Send("/getBalance", None)
    /\ UNCHANGED <<args, solveLocals, outcome, counters, chk, task, calls, handles>>

GetBalanceReturn ==
    /\ op = "get_balance" /\ pc = "request"
    /\ \E r \in BalanceAnswers :
          /\ Receive(r)
          /\ outcome' = get_balance(r)
    /\ pc' = "done"
    /\ UNCHANGED <<self, op, args, solveLocals, counters, chk, task, calls, handles>>

CreateTaskCall ==
    /\ op = "none"
    /\ task.state = "built"
    /\ op' = "create_task"
    /\ pc' = "request"
    /\ Send("/createTask", None)
    /\ nCreate' = nCreate + 1
    /\ UNCHANGED <<args, solveLocals, outcome, nPolls, nSleeps, clock, chk, task, calls, handles>>

CreateTaskReturn ==
    /\ op = "create_task" /\ pc = "request"
    /\ \E r \in CreateTaskAnswers :
          /\ Receive(r)
          /\ outcome' = create_task(r)
    /\ pc' = "done"
    /\ UNCHANGED <<self, op, args, solveLocals, counters, chk, task, calls, handles>>

GetTaskResultCall ==
    /\ op = "none"
    /\ \E t \in TaskIdArgs :
          /\ args' = [NoArgs EXCEPT !.task_id = Some(t)]
          /\ Send("/getTaskResult", Some(t))
    /\ op' = "get_task_result"
    /\ pc' = "request"
    /\ nPolls' = nPolls + 1
    /\ UNCHANGED <<solveLocals, outcome, nCreate, nSleeps, clock, chk, task, calls, handles>>

GetTaskResultReturn ==
    /\ op = "get_task_result" /\ pc = "request"
    /\ \E r \in TaskResultAnswers :
          /\ Receive(r)
          /\ outcome' = get_task_result(r)
    /\ pc' = "done"
    /\ UNCHANGED <<self, op, args, solveLocals, counters, chk, task, calls, handles>>

-----------------------------------------------------------------------------
(* client.py: solve *)

\* The error solve raises when createTask gave no task id.
NoTaskIdError ==
    Exc("YesCaptchaError", 1, Some("ERROR_NO_TASK_ID"),
        Some("createTask returned no task ID"))

\* Mutant of TimeoutDescription: the task id is left out of the text.
TimeoutDescription_NoTaskId(tid, t) ==
    "task timed out after " \o ToString(t) \o " seconds"

\* The f-string of the timeout error: the task id and the timeout in text.
TimeoutDescription(tid, t) ==
    "task " \o tid \o " timed out after " \o ToString(t) \o " seconds"

TaskTimeoutError(tid, t) ==
    Exc("TaskTimeoutError", 1, Some("ERROR_TASK_TIMEOUT"),
        Some(TimeoutDescription(tid, t)))

\* A success envelope that is not ready, as the service sent it.
SuccessNotReady(r) ==
    /\ r.kind = "json"
    /\ TaskResultResponse_valid(r.body)
    /\ r.body.errorId = JInt(0)
    /\ r.body.status # JStr("ready")

\* Mutant of IsReady: the status is not looked at.
IsReady_SolutionOnly(res) == res.solution # None

\* Mutant of IsReady: the status is compared with the wrong literal.
IsReady_WrongLiteral(res) == res.status = Some("done") /\ res.solution # None

\* "result.status == 'ready' and result.solution"
IsReady(res) == res.status = Some("ready") /\ res.solution # None

\* Mutant of ResolveTimeout: "timeout = timeout or self.timeout".
ResolveTimeout_Falsy(t, configured) ==
    IF t = None \/ t = Some(0) THEN configured ELSE Get(t)

\* "if timeout is None: timeout = self.timeout"
ResolveTimeout(t, configured) == IF t = None THEN configured ELSE Get(t)

\* Mutant of NextElapsed: the time the sleep really took is added.
NextElapsed_WallClock(e, poll_interval, slept) == e + slept

\* "elapsed += poll_interval", after a sleep that took slept on the clock.
NextElapsed(e, poll_interval, slept) == e + poll_interval

\* Mutant of OnCancel: the cancellation is reported as a timeout.
OnCancel_AsTimeout(exc) ==
    Exc("TaskTimeoutError", 1, Some("ERROR_TASK_TIMEOUT"), None)

\* solve has no try/except around its awaits: the exception thrown into
\* the await leaves solve as it is.
OnCancel(exc) == exc

\* solve(task, poll_interval, timeout) up to its first await: the default
\* timeout, then create_task sends its request.
SolveCall ==
    /\ op = "none"
    /\ task.state = "built"
    /\ \E pi \in PollIntervalArgs, t \in TimeoutArgs :
          /\ args' = [NoArgs EXCEPT
                         !.poll_interval = IF pi = None THEN DefaultPollInterval
                                                        ELSE Get(pi),
                         !.poll_interval_given = (pi # None),
                         !.timeout = t]
          /\ timeout' = ResolveTimeout(t, self.timeout)
    /\ op' = "solve"
    /\ pc' = "create_task"
    /\ Send("/createTask", None)
    /\ nCreate' = nCreate + 1
    /\ UNCHANGED <<task_id, elapsed, result, allNotReady, outcome, nPolls, nSleeps,
                   clock, chk, task, calls, handles>>

\* create_task ends; task_id = create_response.taskId; "if not task_id".
SolveCreateTaskReturn ==
    /\ op = "solve" /\ pc = "create_task"
    /\ \E d \in RoundTrips : clock' = clock + d
    /\ \E r \in CreateTaskAnswers :
          LET o == create_task(r) IN
          /\ Receive(r)
          /\ IF o.kind = "raise"
             THEN /\ outcome' = o
                  /\ pc' = "done"
                  /\ UNCHANGED <<task_id, elapsed>>
             ELSE LET create_response == Get(o.value) IN
                  /\ task_id' = create_response.taskId
                  /\ IF ~Truthy(create_response.taskId)
                     THEN /\ outcome' = NoTaskIdError
                          /\ pc' = "done"
                          /\ UNCHANGED elapsed
                     ELSE /\ elapsed' = 0
                          /\ pc' = "while"
                          /\ UNCHANGED outcome
    /\ UNCHANGED <<self, op, args, timeout, result, allNotReady, nCreate, nPolls,
                   nSleeps, chk, task, calls, handles>>

\* "while elapsed < timeout" holds: get_task_result sends its request.
SolvePoll ==
    /\ op = "solve" /\ pc = "while"
    /\ elapsed < timeout
    /\ nPolls < MaxPolls
    /\ Send("/getTaskResult", task_id)
    /\ nPolls' = nPolls + 1
    /\ pc' = "get_task_result"
    /\ UNCHANGED <<op, args, solveLocals, outcome, nCreate, nSleeps, clock, chk, task, calls, handles>>

\* Mutant of SolveTimeout: the loop is "while True", left only by a ready
\* result or an exception; with the budget used up solve goes on waiting.
SolveTimeout_WhileTrue ==
    /\ op = "solve" /\ pc = "while"
    /\ ~(elapsed < timeout)
    /\ UNCHANGED vars

\* "while elapsed < timeout" fails: raise TaskTimeoutError.
SolveTimeout ==
    /\ op = "solve" /\ pc = "while"
    /\ ~(elapsed < timeout)
    /\ outcome' = TaskTimeoutError(Get(task_id), timeout)
    /\ pc' = "done"
    /\ UNCHANGED <<self, op, args, solveLocals, http, counters, chk, task, calls, handles>>

\* Mutant of SolvePollReturn: asyncio.sleep comes before the test of the
\* result, so that a sleep is started after the ready result too.
SolvePollReturn_SleepsFirst ==
    /\ op = "solve" /\ pc = "get_task_result"
    /\ \E d \in RoundTrips : clock' = clock + d
    /\ \E r \in PollAnswers :
          LET o == get_task_result(r) IN
          /\ Receive(r)
          /\ allNotReady' = (allNotReady /\ SuccessNotReady(r))
          /\ IF o.kind = "raise"
             THEN /\ outcome' = o
                  /\ pc' = "done"
                  /\ UNCHANGED <<result, nSleeps>>
             ELSE /\ result' = Get(o.value)
                  /\ nSleeps' = nSleeps + 1
                  /\ IF IsReady(Get(o.value))
                     THEN /\ outcome' = Returned(Get(Get(o.value).solution))
                          /\ pc' = "done"
                     ELSE /\ pc' = "sleep"
                          /\ UNCHANGED outcome
    /\ UNCHANGED <<self, op, args, task_id, timeout, elapsed, nCreate, nPolls, chk, task, calls, handles>>

\* get_task_result ends: it raises, or result is ready and solve returns
\* result.solution, or solve starts asyncio.sleep(poll_interval).
SolvePollReturn ==
    /\ op = "solve" /\ pc = "get_task_result"
    /\ \E d \in RoundTrips : clock' = clock + d
    /\ \E r \in PollAnswers :
          LET o == get_task_result(r) IN
          /\ Receive(r)
          /\ allNotReady' = (allNotReady /\ SuccessNotReady(r))
          /\ IF o.kind = "raise"
             THEN /\ outcome' = o
                  /\ pc' = "done"
                  /\ UNCHANGED <<result, nSleeps>>
             ELSE /\ result' = Get(o.value)
                  /\ IF IsReady(Get(o.value))
                     THEN /\ outcome' = Returned(Get(Get(o.value).solution))
                          /\ pc' = "done"
                          /\ UNCHANGED nSleeps
                     ELSE /\ nSleeps' = nSleeps + 1
                          /\ pc' = "sleep"
                          /\ UNCHANGED outcome
    /\ UNCHANGED <<self, op, args, task_id, timeout, elapsed, nCreate, nPolls, chk, task, calls, handles>>

\* asyncio.sleep(poll_interval) ends, no earlier than asked;
\* "elapsed += poll_interval".
SolveSleepDone ==
    /\ op = "solve" /\ pc = "sleep"
    /\ \E late \in SleepLateness :
          LET slept == args.poll_interval + late IN
          /\ clock' = clock + slept
          /\ elapsed' = NextElapsed(elapsed, args.poll_interval, slept)
    /\ pc' = "while"
    /\ UNCHANGED <<self, op, args, task_id, timeout, result, allNotReady, http,
                   outcome, nCreate, nPolls, nSleeps, chk, task, calls, handles>>

\* The caller cancels the task running solve while solve is suspended in one
\* of its awaits (a request or asyncio.sleep): CancelledError is thrown into
\* that await and the request in flight, if any, is abandoned.
SolveCancel ==
    /\ op = "solve" /\ pc \in {"create_task", "get_task_result", "sleep"}
    /\ outcome' = OnCancel(ForeignExc("CancelledError"))
    /\ http' = IF http.state = "pending" THEN [http EXCEPT !.state = "cancelled"]
                                         ELSE http
    /\ pc' = "done"
    /\ UNCHANGED <<self, op, args, solveLocals, counters, chk, task, calls, handles>>

\* The call is over and its locals are gone; the client object stays.
Finish ==
    /\ pc = "done"
    /\ op' = "none"
    /\ pc' = "idle"
    /\ args' = NoArgs
    /\ task_id' = None
    /\ timeout' = 0
    /\ elapsed' = 0
    /\ result' = NoResult
    /\ http' = NoExchange
    /\ outcome' = NoOutcome
    /\ nCreate' = 0
    /\ nPolls' = 0
    /\ nSleeps' = 0
    /\ allNotReady' = TRUE
    /\ clock' = 0
    /\ UNCHANGED <<self, chk, task, calls, handles>>

Next ==
    \/ GetBalanceCall
    \/ GetBalanceReturn
    \/ CreateTaskCall
    \/ CreateTaskReturn
    \/ GetTaskResultCall
    \/ GetTaskResultReturn
    \/ SolveCall
    \/ SolveCreateTaskReturn
    \/ SolvePoll
    \/ SolveTimeout
    \/ SolvePollReturn
    \/ SolveSleepDone
    \/ SolveCancel
    \/ Finish

Spec == Init /\ [][Next]_vars

\* A step of a running solve call: the coroutine runs on when it can, and
\* the request or the sleep it awaits completes.
SolveStep ==
    \/ SolveCreateTaskReturn
    \/ SolvePoll
    \/ SolveTimeout
    \/ SolvePollReturn
    \/ SolveSleepDone

NextLive ==
    \/ SolveCall
    \/ SolveStep
    \/ SolveCancel
    \/ Finish

\* solve calls under the event loop's scheduling: a call that can take a step
\* eventually takes one (every request and every sleep completes, and the
\* coroutine is resumed).
SpecLive == Init /\ [][NextLive]_vars /\ WF_vars(SolveStep)

-----------------------------------------------------------------------------
(* models.py and client.py: a task is constructed and handed to create_task *)

InitTask ==
    /\ self = NewClient("key", "https://api.yescaptcha.com", 2)
    /\ Idle
    /\ chk = NoCheck
    /\ task \in UNION {{TaskFrom(c, kw) : kw \in TaskArgs(Task[c])} : c \in TaskClasses}
    /\ calls = NoCalls
    /\ handles = NoHandles

\* The caller runs cls(**kw) for a Task variant cls.
Construct ==
    /\ task.state = "args"
    /\ task' = Constructed(task.cls, task.kw)
    /\ UNCHANGED <<self, op, pc, args, solveLocals, http, outcome, counters, chk,
                   calls, handles>>

\* The caller runs "task.type = v" on a built task: the class is a plain
\* BaseModel (not frozen, no validate_assignment), so the value is stored
\* without validation.
AssignType ==
    /\ task.state = "built"
    /\ op = "none"
    /\ \E v \in TypeAssignments : task' = [task EXCEPT !.obj.type = PStr(v)]
    /\ UNCHANGED <<self, op, pc, args, solveLocals, http, outcome, counters, chk,
                   calls, handles>>

NextTask ==
    \/ Construct
    \/ AssignType
    \/ CreateTaskCall
    \/ CreateTaskReturn
    \/ Finish

SpecTask == InitTask /\ [][NextTask]_vars

-----------------------------------------------------------------------------
(* client.py: two solve calls interleaved on one client *)

\* Mutant of Frame: task_id, timeout and elapsed are kept in one place for all
\* the calls on the client, as attributes of self would be.
Frame_OnClient(c) == 1

\* Each call of solve has its own frame of locals.
Frame(c) == c

\* The locals that call c reads and writes.
Local(c) == calls.loc[Frame(c)]

\* The service's answer to the k-th poll of task tid, whose script is given.
ServiceAnswer(tid, script, k) ==
    LET what == IF k <= Len(script) THEN script[k] ELSE "processing" IN
    CASE what = "processing" ->
             NetJson(Body(JInt(0), JAbsent, JAbsent, JAbsent,
                          JStr("processing"), JAbsent, JAbsent))
      [] what = "ready" ->
             NetJson(Body(JInt(0), JAbsent, JAbsent, JAbsent,
                          JStr("ready"), JObj("token-of-" \o tid), JAbsent))
      [] what = "error" ->
             NetJson(Body(JInt(1), JStr("ERROR_CAPTCHA_UNSOLVABLE"),
                          JStr("description"), JAbsent, JAbsent, JAbsent, JAbsent))

\* The client property and the POST of _request, for one of the two calls.
PairRequest(endpoint, tid) ==
    LET client == IF self._client = None THEN AsyncClient(self.timeout)
                                         ELSE Get(self._client)
    IN  [endpoint |-> endpoint, clientKey |-> self.client_key,
         task |-> IF endpoint = "/createTask"
                  THEN Some(model_dump(task.obj)) ELSE None,
         taskId |-> tid, timeout |-> client.timeout,
         state |-> "pending", resp |-> NoResponse]

PairClient ==
    self' = [self EXCEPT !._client = IF @ = None THEN Some(AsyncClient(self.timeout))
                                                 ELSE @]

pairFrame == <<op, pc, args, solveLocals, http, outcome, counters, chk, task, handles>>

\* Call c enters solve: the default timeout, then create_task sends its
\* request.
PairSolveCall(c) ==
    /\ calls.ctl[c].pc = "idle"
    /\ \E t \in PairTimeoutArgs, sc \in Scripts :
          calls' = [calls EXCEPT
                      !.ctl[c].pc = "create_task",
                      !.ctl[c].args = [NoArgs EXCEPT !.poll_interval = 1,
                                                     !.poll_interval_given = TRUE,
                                                     !.timeout = t],
                      !.ctl[c].script = sc,
                      !.ctl[c].req = PairRequest("/createTask", None),
                      !.loc[Frame(c)].timeout = ResolveTimeout(t, self.timeout)]
    /\ PairClient
    /\ UNCHANGED pairFrame

\* The service creates the task of call c under the next task id and answers;
\* task_id = create_response.taskId; "if not task_id".
PairCreateTaskReturn(c) ==
    /\ calls.ctl[c].pc = "create_task"
    /\ LET n == calls.service.created + 1
           tid == "task-" \o ToString(n)
           r == NetJson(Body(JInt(0), JAbsent, JAbsent, JStr(tid), JAbsent,
                             JAbsent, JAbsent))
           o == create_task(r)
           answered == [calls EXCEPT
                          !.service.created = n,
                          !.service.script[tid] = calls.ctl[c].script,
                          !.ctl[c].req = [@ EXCEPT !.state = "answered", !.resp = r]]
       IN  IF o.kind = "raise"
           THEN calls' = [answered EXCEPT !.ctl[c].pc = "done",
                                          !.ctl[c].outcome = o]
           ELSE LET create_response == Get(o.value) IN
                IF ~Truthy(create_response.taskId)
                THEN calls' = [answered EXCEPT
                                 !.ctl[c].pc = "done",
                                 !.ctl[c].outcome = NoTaskIdError,
                                 !.loc[Frame(c)].task_id = create_response.taskId]
                ELSE calls' = [answered EXCEPT
                                 !.ctl[c].pc = "while",
                                 !.ctl[c].created = create_response.taskId,
                                 !.loc[Frame(c)].task_id = create_response.taskId,
                                 !.loc[Frame(c)].elapsed = 0]
    /\ UNCHANGED <<self, pairFrame>>

\* "while elapsed < timeout" holds for call c: get_task_result sends its
\* request.
PairPoll(c) ==
    /\ calls.ctl[c].pc = "while"
    /\ Local(c).elapsed < Local(c).timeout
    /\ calls.ctl[c].nPolls < MaxPolls
    /\ calls' = [calls EXCEPT
                   !.ctl[c].pc = "get_task_result",
                   !.ctl[c].req = PairRequest("/getTaskResult", Local(c).task_id),
                   !.ctl[c].polled = @ \cup {Local(c).task_id},
                   !.ctl[c].nPolls = @ + 1]
    /\ PairClient
    /\ UNCHANGED pairFrame

\* "while elapsed < timeout" fails for call c: raise TaskTimeoutError.
PairTimeout(c) ==
    /\ calls.ctl[c].pc = "while"
    /\ ~(Local(c).elapsed < Local(c).timeout)
    /\ calls' = [calls EXCEPT
                   !.ctl[c].pc = "done",
                   !.ctl[c].outcome = TaskTimeoutError(Get(Local(c).task_id),
                                                       Local(c).timeout)]
    /\ UNCHANGED <<self, pairFrame>>
\* The service answers the poll of call c by the script of the task the poll
\* names; get_task_result ends: it raises, or result is ready and solve
\* returns result.solution, or solve starts asyncio.sleep(poll_interval).
PairPollReturn(c) ==
    /\ calls.ctl[c].pc = "get_task_result"
    /\ LET tid == Get(calls.ctl[c].req.taskId)
           k == calls.service.polls[tid] + 1
           r == ServiceAnswer(tid, calls.service.script[tid], k)
           o == get_task_result(r)
           answered == [calls EXCEPT
                          !.service.polls[tid] = k,
                          !.ctl[c].req = [@ EXCEPT !.state = "answered", !.resp = r]]
       IN  IF o.kind = "raise"
           THEN calls' = [answered EXCEPT !.ctl[c].pc = "done",
                                          !.ctl[c].outcome = o]
           ELSE IF IsReady(Get(o.value))
                THEN calls' = [answered EXCEPT
                                 !.ctl[c].pc = "done",
                                 !.ctl[c].outcome =
                                     Returned(Get(Get(o.value).solution))]
                ELSE calls' = [answered EXCEPT !.ctl[c].pc = "sleep",
                                               !.ctl[c].nSleeps = @ + 1]
    /\ UNCHANGED <<self, pairFrame>>

\* asyncio.sleep(poll_interval) of call c ends; "elapsed += poll_interval".
PairSleepDone(c) ==
    /\ calls.ctl[c].pc = "sleep"
    /\ calls' = [calls EXCEPT
                   !.ctl[c].pc = "while",
                   !.loc[Frame(c)].elapsed =
                       NextElapsed(Local(c).elapsed, calls.ctl[c].args.poll_interval,
                                   calls.ctl[c].args.poll_interval)]
    /\ UNCHANGED <<self, pairFrame>>

InitPair ==
    /\ self = NewClient("key", "https://api.yescaptcha.com", 2)
    /\ Idle
    /\ chk = NoCheck
    /\ task = SomeTask
    /\ calls = NoCalls
    /\ handles = NoHandles

NextPair ==
    \E c \in Calls :
        \/ PairSolveCall(c)
        \/ PairCreateTaskReturn(c)
        \/ PairPoll(c)
        \/ PairTimeout(c)
        \/ PairPollReturn(c)
        \/ PairSleepDone(c)

SpecPair == InitPair /\ [][NextPair]_vars

-----------------------------------------------------------------------------
(* exceptions.py: raise_for_error on its own *)

InitCheck ==
    /\ self = NewClient("key", "https://api.yescaptcha.com", 2)
    /\ Idle
    /\ chk \in [state : {"called"}, error_id : CheckErrorIds,
                error_code : CheckErrorCodes,
                error_description : CheckErrorDescriptions, out : {NoOutcome}]
    /\ task = SomeTask
    /\ calls = NoCalls
    /\ handles = NoHandles

RaiseForError ==
    /\ chk.state = "called"
    /\ chk' = [chk EXCEPT !.state = "done",
                          !.out = raise_for_error(chk.error_id, chk.error_code,
                                                  chk.error_description)]
    /\ UNCHANGED <<self, op, pc, args, solveLocals, http, outcome, counters, task, calls, handles>>

NextCheck == RaiseForError

SpecCheck == InitCheck /\ [][NextCheck]_vars

-----------------------------------------------------------------------------
(* client.py: solve with poll_interval, timeout and elapsed as Python floats *)

\* A float (IEEE 754 binary64) x with 0 <= x < 2^16 that is a multiple of
\* 2^-56: the integer x * 2^56 as three digits of 24 bits, the lowest first.
\* The literals used, each as the float nearest to it.
float(literal) ==
    CASE literal = "0.0"  -> <<0, 0, 0>>
      [] literal = "0.1"  -> <<10066330, 10066329, 25>>
      [] literal = "0.25" -> <<0, 0, 64>>
      [] literal = "0.3"  -> <<13421772, 13421772, 76>>
      [] literal = "0.5"  -> <<0, 0, 128>>
      [] literal = "1.0"  -> <<0, 0, 256>>

FloatLiterals == {"0.0", "0.1", "0.25", "0.3", "0.5", "1.0"}

\* str(x) of a float that was written as a literal.
FloatStr(x) == CHOOSE literal \in FloatLiterals : float(literal) = x

\* x + y in exact arithmetic.
ExactSum(x, y) ==
    LET s1 == x[1] + y[1]
        s2 == x[2] + y[2] + (s1 \div 2^24)
    IN  <<s1 % 2^24, s2 % 2^24, x[3] + y[3] + (s2 \div 2^24)>>

\* The number of bits of a digit, and of a number.
DigitBits(d) == CHOOSE k \in 0..25 : d < 2^k /\ (k = 0 \/ d >= 2^(k-1))

Bits(x) ==
    IF x[3] > 0 THEN 48 + DigitBits(x[3])
    ELSE IF x[2] > 0 THEN 24 + DigitBits(x[2])
    ELSE DigitBits(x[1])

\* x rounded to 53 significant bits, a tie to the even neighbour.
RoundToFloat(x) ==
    LET drop == Bits(x) - 53 IN
    IF drop <= 0 THEN x
    ELSE LET q == 2^drop
             r == x[1] % q
             odd == (x[1] \div q) % 2 = 1
             down == <<x[1] - r, x[2], x[3]>>
         IN  IF 2 * r > q \/ (2 * r = q /\ odd)
             THEN ExactSum(down, <<q, 0, 0>>)
             ELSE down

\* Python's x + y on floats.
FloatAdd(x, y) == RoundToFloat(ExactSum(x, y))

\* Python's x < y on floats.
FloatLess(x, y) ==
    \/ x[3] < y[3]
    \/ x[3] = y[3] /\ x[2] < y[2]
    \/ x[3] = y[3] /\ x[2] = y[2] /\ x[1] < y[1]

\* The arguments tried: an interval that is not a binary fraction and one
\* that is; no timeout, or one of four.
FloatPollIntervals == {float("0.1"), float("0.25")}

FloatTimeoutArgs ==
    {None, Some(float("0.0")), Some(float("0.3")), Some(float("1.0"))}

InitFloat ==
    /\ self = NewClient("key", "https://api.yescaptcha.com", float("0.5"))
    /\ Idle
    /\ chk = NoCheck
    /\ task = SomeTask
    /\ calls = NoCalls
    /\ handles = NoHandles

\* solve(task, poll_interval, timeout) up to its first await.
FloatSolveCall ==
    /\ op = "none"
    /\ task.state = "built"
    /\ \E pi \in FloatPollIntervals, t \in FloatTimeoutArgs :
          /\ args' = [NoArgs EXCEPT !.poll_interval = pi,
                                    !.poll_interval_given = TRUE,
                                    !.timeout = t]
          /\ timeout' = ResolveTimeout(t, self.timeout)
    /\ op' = "solve"
    /\ pc' = "create_task"
    /\ Send("/createTask", None)
    /\ nCreate' = nCreate + 1
    /\ UNCHANGED <<task_id, elapsed, result, allNotReady, outcome, nPolls, nSleeps,
                   clock, chk, task, calls, handles>>

\* create_task ends; "if not task_id"; "elapsed = 0.0".
FloatSolveCreateTaskReturn ==
    /\ op = "solve" /\ pc = "create_task"
    /\ \E r \in CreateTaskAnswers :
          LET o == create_task(r) IN
          /\ Receive(r)
          /\ IF o.kind = "raise"
             THEN /\ outcome' = o
                  /\ pc' = "done"
                  /\ UNCHANGED <<task_id, elapsed>>
             ELSE LET create_response == Get(o.value) IN
                  /\ task_id' = create_response.taskId
                  /\ IF ~Truthy(create_response.taskId)
                     THEN /\ outcome' = NoTaskIdError
                          /\ pc' = "done"
                          /\ UNCHANGED elapsed
                     ELSE /\ elapsed' = float("0.0")
                          /\ pc' = "while"
                          /\ UNCHANGED outcome
    /\ UNCHANGED <<self, op, args, timeout, result, allNotReady, nCreate, nPolls,
                   nSleeps, clock, chk, task, calls, handles>>

\* "while elapsed < timeout" holds: get_task_result sends its request.
FloatSolvePoll ==
    /\ op = "solve" /\ pc = "while"
    /\ FloatLess(elapsed, timeout)
    /\ Send("/getTaskResult", task_id)
    /\ nPolls' = nPolls + 1
    /\ pc' = "get_task_result"
    /\ UNCHANGED <<op, args, solveLocals, outcome, nCreate, nSleeps, clock, chk, task, calls, handles>>

\* "while elapsed < timeout" fails: raise TaskTimeoutError.
FloatSolveTimeout ==
    /\ op = "solve" /\ pc = "while"
    /\ ~FloatLess(elapsed, timeout)
    /\ outcome' = Exc("TaskTimeoutError", 1, Some("ERROR_TASK_TIMEOUT"),
                      Some("task " \o Get(task_id) \o " timed out after "
                           \o FloatStr(timeout) \o " seconds"))
    /\ pc' = "done"
    /\ UNCHANGED <<self, op, args, solveLocals, http, counters, chk, task, calls, handles>>

\* asyncio.sleep(poll_interval) ends; "elapsed += poll_interval".
FloatSolveSleepDone ==
    /\ op = "solve" /\ pc = "sleep"
    /\ elapsed' = FloatAdd(elapsed, args.poll_interval)
    /\ pc' = "while"
    /\ UNCHANGED <<self, op, args, task_id, timeout, result, allNotReady, http,
                   outcome, counters, chk, task, calls, handles>>

NextFloat ==
    \/ FloatSolveCall
    \/ FloatSolveCreateTaskReturn
    \/ FloatSolvePoll
    \/ FloatSolveTimeout
    \/ SolvePollReturn
    \/ FloatSolveSleepDone
    \/ SolveCancel
    \/ Finish

SpecFloat == InitFloat /\ [][NextFloat]_vars

-----------------------------------------------------------------------------
(* client.py: the AsyncClient handle when coroutines share self *)

\* self._client holds the identity h of an AsyncClient, handles.is_closed[h]
\* is that object's is_closed, and handles.co[c] is where coroutine c stands
\* in the method of self it is running.

handleFrame == <<op, pc, args, solveLocals, http, outcome, counters, chk, task, calls>>

InitHandle ==
    /\ self = NewClient("key", "https://api.yescaptcha.com", 2)
    /\ Idle
    /\ chk = NoCheck
    /\ task = SomeTask
    /\ calls = NoCalls
    /\ handles = NoHandles

\* Coroutine c is in no method of self and may call one.
Free(c) == handles.co[c].pc \in {"idle", "done"}

\* "httpx.AsyncClient(timeout=self.timeout)": the identity of a new object.
NewHandle == Len(handles.is_closed) + 1

\* "async with client:" is entered. A new AsyncClient is bound to
\* self._client, whatever self._client held; the method awaits nothing.
__aenter__(c) ==
    /\ Free(c)
    /\ NewHandle <= MaxHandles
    /\ self' = [self EXCEPT !._client = Some(NewHandle)]
    /\ handles' = [handles EXCEPT
           !.is_closed = Append(@, FALSE),
           !.co[c] = [method |-> "__aenter__", pc |-> "done",
                      handle |-> Some(NewHandle), outcome |-> "return"]]
    /\ UNCHANGED handleFrame

\* The body close() and __aexit__ share, up to the await: with a handle,
\* aclose() is called on it (httpx marks the object closed before it awaits
\* the transport) and the coroutine is suspended; without one the method
\* returns at once.
CloseBody(c, method) ==
    /\ Free(c)
    /\ IF self._client # None
       THEN handles' = [handles EXCEPT
                !.is_closed[Get(self._client)] = TRUE,
                !.co[c] = [method |-> method, pc |-> "aclose",
                           handle |-> self._client, outcome |-> "none"]]
       ELSE handles' = [handles EXCEPT
                !.co[c] = [method |-> method, pc |-> "done",
                           handle |-> None, outcome |-> "return"]]
    /\ UNCHANGED <<self, handleFrame>>

__aexit__(c) == CloseBody(c, "__aexit__")

close(c) == CloseBody(c, "close")

\* aclose() returns to close() or __aexit__: "self._client = None".
AcloseReturn(c) ==
    /\ handles.co[c].pc = "aclose"
    /\ self' = [self EXCEPT !._client = None]
    /\ handles' = [handles EXCEPT !.co[c].pc = "done", !.co[c].outcome = "return"]
    /\ UNCHANGED handleFrame

\* _request: the client property (a new AsyncClient when self._client is
\* None) and post() on the handle it gives. httpx refuses to send on an
\* object that is closed: RuntimeError.
PostCall(c) ==
    LET lazy == self._client = None
        h == IF lazy THEN NewHandle ELSE Get(self._client)
        closed == ~lazy /\ handles.is_closed[h]
    IN  /\ Free(c)
        /\ lazy => NewHandle <= MaxHandles
        /\ self' = [self EXCEPT !._client = Some(h)]
        /\ handles' = [handles EXCEPT
               !.is_closed = IF lazy THEN Append(@, FALSE) ELSE @,
               !.co[c] = [method |-> "_request",
                          pc |-> IF closed THEN "done" ELSE "post",
                          handle |-> Some(h),
                          outcome |-> IF closed THEN "RuntimeError" ELSE "none"]]
        /\ UNCHANGED handleFrame

\* The awaited post() ends: a response, or an httpx error.
PostReturn(c) ==
    /\ handles.co[c].pc = "post"
    /\ \E o \in {"return", "raise"} :
           handles' = [handles EXCEPT !.co[c].pc = "done", !.co[c].outcome = o]
    /\ UNCHANGED <<self, handleFrame>>

NextHandle ==
    \E c \in Coroutines :
        \/ __aenter__(c)
        \/ __aexit__(c)
        \/ close(c)
        \/ AcloseReturn(c)
        \/ PostCall(c)
        \/ PostReturn(c)

SpecHandle == InitHandle /\ [][NextHandle]_vars

-----------------------------------------------------------------------------
(* Properties of solve *)

\* This step is the one in which solve's pending poll is answered.
PollAnswered == op = "solve" /\ pc = "get_task_result" /\ http'.state = "answered"

\* Once a call has ended (returned or raised) it sends no request.
NoRequestAfterOutcome == outcome.kind # "none" => http'.state # "pending"

\* The solve call has ended.
SolveDone == op = "solve" /\ pc = "done"

DescriptionText == {"task ", " timed out after ", " seconds", ""}

\* The description d names the task id tid and the timeout t.
NamesTaskAndTimeout(d, tid, t) ==
    \E a \in DescriptionText, b \in DescriptionText, c \in DescriptionText :
        d = Some(a \o tid \o b \o ToString(t) \o c)

\* The timeout solve was configured with: its argument, else the client's.
ConfiguredTimeout == IF args.timeout = None THEN self.timeout ELSE Get(args.timeout)

\* The caller cancelled the call.
Cancelled == outcome.cls = "CancelledError"

\* C2: when createTask gave a task id and every poll was answered by a success
\* envelope that is not ready, solve never returns a value; unless its caller
\* cancels it, it ends only once elapsed >= timeout, raising TaskTimeoutError
\* with code ERROR_TASK_TIMEOUT and a description that names the task id and
\* the configured timeout.
C2_TimeoutWhenNeverReady ==
    (op = "solve" /\ Truthy(task_id) /\ allNotReady /\ ~Cancelled)
    => /\ outcome.kind # "return"
       /\ pc = "done"
          => /\ outcome.kind = "raise"
             /\ outcome.cls = "TaskTimeoutError"
             /\ outcome.error_code = Some("ERROR_TASK_TIMEOUT")
             /\ NamesTaskAndTimeout(outcome.error_description, Get(task_id),
                                    ConfiguredTimeout)
             /\ elapsed >= ConfiguredTimeout
       /\ (pc = "while" /\ elapsed >= ConfiguredTimeout) => ENABLED SolveTimeout

\* C2 witness: solve timed out after several polls that were all answered
\* "not ready".
C2_Witness ==
    /\ SolveDone
    /\ allNotReady
    /\ nPolls >= 2
    /\ outcome.cls = "TaskTimeoutError"

-----------------------------------------------------------------------------
(* Properties of create_task and of solve's use of it *)

\* The createTask answer r reports success (a valid envelope with errorId 0).
CreateSucceeded(r) ==
    /\ r.kind = "json"
    /\ CreateTaskResponse_valid(r.body)
    /\ r.body.errorId = JInt(0)

\* C3: create_task fails with the no-task-id error whenever the createTask
\* response reports success but carries no task identifier, so every
\* CreateTaskResponse it returns carries one.
C3_CreateTaskRequiresTaskId ==
    (op = "create_task" /\ pc = "done")
    => /\ (CreateSucceeded(http.resp) /\ http.resp.body.taskId = JAbsent)
          => (outcome.kind = "raise" /\ outcome.error_code = Some("ERROR_NO_TASK_ID"))
       /\ outcome.kind = "return" => Get(outcome.value).taskId # None

\* C4: when createTask reports success without a task identifier (absent or
\* empty), solve has ended right after that answer, raising an SDK error with
\* code ERROR_NO_TASK_ID, having sent no getTaskResult request and started no
\* sleep.
C4_SolveFailsFastWithoutTaskId ==
    ( /\ op = "solve"
      /\ http.endpoint = "/createTask"
      /\ http.state = "answered"
      /\ CreateSucceeded(http.resp)
      /\ http.resp.body.taskId \in {JAbsent, JStr("")} )
    => /\ pc = "done"
       /\ outcome.kind = "raise"
       /\ outcome.cls \in YesCaptchaErrorClasses
       /\ outcome.error_code = Some("ERROR_NO_TASK_ID")
       /\ nPolls = 0
       /\ nSleeps = 0

\* C4 witness: solve ended with ERROR_NO_TASK_ID on an empty task id.
C4_Witness ==
    /\ SolveDone
    /\ CreateSucceeded(http.resp)
    /\ http.resp.body.taskId = JStr("")
    /\ outcome.error_code = Some("ERROR_NO_TASK_ID")

-----------------------------------------------------------------------------
(* Properties of the error check *)

DirectOps == {"get_balance", "create_task", "get_task_result"}

\* C5: every envelope that get_balance, create_task or get_task_result
\* returns has errorId 0, and every response body whose errorId is a non-zero
\* integer makes the operation raise a YesCaptchaError (or a subclass).
C5_ErrorEnvelopeNeverReturned ==
    (op \in DirectOps /\ pc = "done")
    => /\ outcome.kind = "return" => Get(outcome.value).errorId = 0
       /\ ( /\ http.resp.kind = "json"
            /\ http.resp.body.errorId.ty = "int"
            /\ http.resp.body.errorId.n # 0 )
          => (outcome.kind = "raise" /\ outcome.cls \in YesCaptchaErrorClasses)

\* The mapping table of the specification: error code, kind.
MappingTable ==
    { <<"ERROR_TASK_TIMEOUT", "TaskTimeoutError">>,
      <<"ERROR_ZERO_BALANCE", "InsufficientBalanceError">>,
      <<"ERROR_KEY_DOES_NOT_EXIST", "InvalidKeyError">>,
      <<"ERROR_CAPTCHA_UNSOLVABLE", "TaskUnsolvableError">>,
      <<"ERROR_IP_BLOCKED_5MIN", "IPBlockedError">>,
      <<"ERROR_IP_BANNED", "IPBlockedError">>,
      <<"ERROR_NO_SLOT_AVAILABLE", "NoSlotAvailableError">>,
      <<"ERROR_NO_SLOT_AVAILABLE_BLOCK", "NoSlotAvailableError">>,
      <<"ERROR_TASK_NOT_SUPPORTED", "TaskNotSupportedError">>,
      <<"ERROR_TASKID_INVALID", "InvalidTaskIdError">>,
      <<"ERROR_NO_SUCH_CAPCHA_ID", "InvalidTaskIdError">>,
      <<"ERROR_BAD_REQUEST", "BadRequestError">>,
      <<"ERROR_SERVICE_UNAVALIABLE", "ServiceUnavailableError">> }

TableCodes == {p[1] : p \in MappingTable}

TableKinds == {p[2] : p \in MappingTable}

\* The kind the table gives a code; the generic kind for any other code.
ExpectedKind(code) ==
    IF code \in TableCodes
    THEN (CHOOSE p \in MappingTable : p[1] = code)[2]
    ELSE "YesCaptchaError"

\* C6: the table maps 13 codes onto 10 kinds, none of them the generic one,
\* and for each of its codes and every errorId other than 0 the error check
\* raises exactly the mapped kind, carrying the errorId, errorCode and
\* errorDescription it was given.
C6_MappedKindRaised ==
    /\ Cardinality(TableCodes) = 13
    /\ Cardinality(TableKinds) = 10
    /\ "YesCaptchaError" \notin TableKinds
    /\ ( /\ chk.state = "done"
         /\ chk.error_id # 0
         /\ chk.error_code \in {Some(c) : c \in TableCodes} )
       => chk.out = Exc(ExpectedKind(Get(chk.error_code)), chk.error_id,
                        chk.error_code, chk.error_description)

\* C6 witness: ERROR_IP_BANNED with errorId 2 raised the ip-blocked kind.
C6_Witness ==
    /\ chk.state = "done"
    /\ chk.error_id = 2
    /\ chk.error_code = Some("ERROR_IP_BANNED")
    /\ chk.out.cls = "IPBlockedError"

\* C7: with errorId 0 the error check raises nothing, whatever the errorCode
\* and the errorDescription are.
C7_NoOpOnZero ==
    (chk.state = "done" /\ chk.error_id = 0) => chk.out.kind = "none"

\* C7 witness: errorId 0 with a code of the table and a description, and the
\* check returned.
C7_Witness ==
    /\ chk.state = "done"
    /\ chk.error_id = 0
    /\ chk.error_code = Some("ERROR_ZERO_BALANCE")
    /\ chk.error_description = Some("description")
    /\ chk.out.kind = "none"

\* C8: for an errorId other than 0 and a non-empty errorCode outside the
\* table, the error check raises the generic YesCaptchaError, carrying the
\* id, code and description, and nothing else.
C8_UnmappedCodeRaisesGeneric ==
    ( /\ chk.state = "done"
      /\ chk.error_id # 0
      /\ chk.error_code # None
      /\ Get(chk.error_code) # ""
      /\ Get(chk.error_code) \notin TableCodes )
    => chk.out = Exc("YesCaptchaError", chk.error_id, chk.error_code,
                     chk.error_description)

\* C8 witness: an unknown code raised the generic kind.
C8_Witness ==
    /\ chk.state = "done"
    /\ chk.error_id = 1
    /\ chk.error_code = Some("ERROR_SOMETHING_NEW")
    /\ chk.out.cls = "YesCaptchaError"

\* C9: when a poll of solve is answered by a body whose errorId is a non-zero
\* integer, solve ends in that step by raising the kind mapped from the
\* body's errorCode, with the id, code and description of the body, without
\* starting a sleep or sending a request (so never as a timeout).
C9_PollErrorRaisesMappedKind ==
    [][ ( /\ PollAnswered
          /\ http'.resp.kind = "json"
          /\ http'.resp.body.errorId.ty = "int"
          /\ http'.resp.body.errorId.n # 0 )
        => /\ pc' = "done"
           /\ outcome' = Exc(ExpectedKind(http'.resp.body.errorCode.s),
                             http'.resp.body.errorId.n,
                             OptStrField(http'.resp.body.errorCode),
                             OptStrField(http'.resp.body.errorDescription))
           /\ UNCHANGED <<nPolls, nSleeps>> ]_vars

-----------------------------------------------------------------------------
(* Properties of transport failures *)

\* The exception the collaborator raises for the transport failure r.
TransportException(r) == IF r.kind = "error" THEN r.exc ELSE "HTTPStatusError"

\* C10: a transport failure of a request ends the call with the collaborator's
\* own exception, which is no YesCaptchaError; in solve this holds for the
\* createTask request and for every poll, no request is sent after it, and
\* the failed request is not sent again.
C10_TransportFailurePropagates ==
    /\ []( (http.state = "answered" /\ http.resp \in TransportFailures)
           => /\ pc = "done"
              /\ outcome = ForeignExc(TransportException(http.resp))
              /\ outcome.cls \notin YesCaptchaErrorClasses
              /\ nCreate <= 1 )
    /\ [][ (http.state = "pending" /\ http'.state = "answered"
              /\ http'.resp \in TransportFailures)
           => UNCHANGED <<nCreate, nPolls, nSleeps>> ]_vars
    /\ [][NoRequestAfterOutcome]_vars

\* C10 witness: the third poll of solve failed with an HTTP timeout.
C10_Witness ==
    /\ SolveDone
    /\ nPolls = 3
    /\ http.resp = NetError("ReadTimeout")
    /\ outcome.cls = "ReadTimeout"

-----------------------------------------------------------------------------
(* Properties of the polling loop *)

\* The poll answer r is a success envelope with status "ready" that carries a
\* solution, as the service sent it.
ReadyWithSolution(r) ==
    /\ r.kind = "json"
    /\ TaskResultResponse_valid(r.body)
    /\ r.body.errorId = JInt(0)
    /\ r.body.status = JStr("ready")
    /\ r.body.solution.ty = "obj"

ScenarioCall == args.poll_interval = 1 /\ args.timeout = Some(50)

\* The answer {errorId: 0, status: "ready", solution: {token: "solved-token-xyz"}}.
ScenarioReady(r) ==
    /\ ReadyWithSolution(r)
    /\ r.body.solution = JObj("solved-token-xyz")

\* C12 as stated: with interval 0.1 and timeout 5, when the polls are answered
\* "processing" three times and then "ready" with token "solved-token-xyz",
\* solve returns a Solution with that token after exactly 3 polls and starts
\* no sleep after the ready answer.
C12_ReadyAfterThreeProcessingInThreePolls ==
    [][ (PollAnswered /\ ScenarioCall /\ allNotReady /\ nSleeps = 3
            /\ ScenarioReady(http'.resp))
        => /\ pc' = "done"
           /\ outcome'.kind = "return"
           /\ Get(outcome'.value).token = Some("solved-token-xyz")
           /\ nPolls' = 3
           /\ UNCHANGED nSleeps ]_vars

\* C12 as amended: in that scenario solve returns a Solution with that token
\* after exactly 4 polls (three answered "processing", the fourth "ready")
\* and exactly 3 sleeps, and starts no sleep after the ready answer.
C12_ReadyAfterThreeProcessingInFourPolls ==
    [][ (PollAnswered /\ ScenarioCall /\ allNotReady /\ nSleeps = 3
            /\ ScenarioReady(http'.resp))
        => /\ pc' = "done"
           /\ outcome'.kind = "return"
           /\ Get(outcome'.value).token = Some("solved-token-xyz")
           /\ nPolls' = 4
           /\ nSleeps' = 3
           /\ elapsed' = 3 ]_vars

\* C12 witness: the scenario ran to its end: three sleeps, then the answer
\* "ready" with the token, returned by solve.
C12_Witness ==
    /\ SolveDone
    /\ ScenarioCall
    /\ ScenarioReady(http.resp)
    /\ nSleeps = 3
    /\ outcome.kind = "return"
    /\ Get(outcome.value).token = Some("solved-token-xyz")

SolveSteps ==
    { <<"idle", "create_task">>, <<"create_task", "while">>,
      <<"create_task", "done">>, <<"while", "get_task_result">>,
      <<"while", "done">>, <<"get_task_result", "sleep">>,
      <<"get_task_result", "done">>, <<"sleep", "while">>,
      <<"sleep", "done">>, <<"done", "idle">> }

\* C14: one solve call sends exactly one createTask and that request is
\* answered with a task id before any getTaskResult is sent; a request is sent
\* only when none is outstanding; polls and sleeps strictly alternate, the
\* poll first; every getTaskResult carries the task id that this call's
\* createTask returned; the call moves created -> submitted -> polling* ->
\* ended, ends with exactly one outcome (a returned solution or one raised
\* exception) and sends no request after it.
C14_OneCallStateMachine ==
    /\ []( op = "solve"
           => /\ nCreate = 1
              /\ (pc = "create_task") => (nPolls = 0 /\ nSleeps = 0)
              /\ (nPolls > 0) => (Truthy(task_id) /\ http.endpoint = "/getTaskResult")
              /\ (http.endpoint = "/getTaskResult") => http.taskId = task_id
              /\ (http.state = "pending") => pc \in {"create_task", "get_task_result"}
              /\ (pc \in {"while", "sleep"}) => nSleeps = nPolls
              /\ (pc = "get_task_result") => nSleeps = nPolls - 1
              /\ (pc = "done") <=> (outcome.kind \in {"return", "raise"})
              /\ (pc # "done") <=> (outcome = NoOutcome) )
    /\ [][ (op' = "solve" \/ op = "solve") => (pc' = pc \/ <<pc, pc'>> \in SolveSteps) ]_vars
    /\ [][ (op = "solve" /\ pc = "create_task" /\ pc' = "while")
           => (task_id' = OptStrField(http'.resp.body.taskId) /\ Truthy(task_id')) ]_vars
    /\ [][ (op = "solve" /\ pc \in {"while", "get_task_result", "sleep"})
           => UNCHANGED task_id ]_vars
    /\ [][ (http'.state = "pending" /\ http' # http) => http.state # "pending" ]_vars
    /\ [][NoRequestAfterOutcome]_vars

\* C14 witness: a call that polled three times, each poll with its own task
\* id, slept after each and ended timed out.
C14_Witness ==
    /\ SolveDone
    /\ nCreate = 1 /\ nPolls = 3 /\ nSleeps = 3
    /\ http.endpoint = "/getTaskResult"
    /\ http.taskId = Some("task-1")
    /\ outcome.cls = "TaskTimeoutError"

-----------------------------------------------------------------------------
(* Properties of cancellation *)

\* This step delivers the caller's cancellation to solve: the request in
\* flight is abandoned, or the sleep is ended before its wake-up.
CancelDelivered ==
    /\ op = "solve"
    /\ \/ pc \in {"create_task", "get_task_result"} /\ http'.state = "cancelled"
       \/ pc = "sleep" /\ pc' = "done"

\* C15: a cancellation delivered while solve awaits a request or sleeps
\* between polls ends solve at once with that CancelledError, which is no
\* SDK error and no timeout; solve starts no request and no sleep in that step
\* or after it, and its bookkeeping is left as it was.
C15_CancellationPropagates ==
    /\ [][ CancelDelivered
           => /\ pc' = "done"
              /\ outcome' = ForeignExc("CancelledError")
              /\ outcome'.cls \notin YesCaptchaErrorClasses
              /\ http'.state # "pending"
              /\ UNCHANGED <<nCreate, nPolls, nSleeps, elapsed, task_id>> ]_vars
    /\ [][ (op = "solve" /\ Cancelled)
           => (op' = "none" /\ http'.state = "none" /\ nPolls' = 0) ]_vars
    /\ [][NoRequestAfterOutcome]_vars

\* C15 witness: solve was cancelled while it awaited the answer of its second
\* poll, after one sleep.
C15_Witness ==
    /\ SolveDone
    /\ Cancelled
    /\ http.endpoint = "/getTaskResult"
    /\ http.state = "cancelled"
    /\ nPolls = 2
    /\ nSleeps = 1

-----------------------------------------------------------------------------
(* Properties of the values get_task_result hands back *)

\* get_task_result, called directly, has returned a response.
TaskResultReturned ==
    op = "get_task_result" /\ pc = "done" /\ outcome.kind = "return"

FullyPopulated(o, v) ==
    CASE o = "get_balance"     -> v.balance # None
      [] o = "create_task"     -> Truthy(v.taskId)
      [] o = "get_task_result" -> v.status # None

\* C18: for every 2xx answer with a JSON body, get_balance, create_task and
\* get_task_result either return a fully populated success value or raise one
\* typed error of the SDK's taxonomy; in particular a body whose errorId is a
\* non-zero integer always makes the operation raise the kind mapped from its
\* errorCode, with the body's id, code and description, whatever the other
\* fields of the body contain.
C18_TypedOutcomeForEveryBody ==
    (op \in DirectOps /\ pc = "done" /\ http.resp.kind = "json")
    => /\ \/ outcome.kind = "return"
             /\ FullyPopulated(op, Get(outcome.value))
          \/ outcome.kind = "raise"
             /\ outcome.cls \in YesCaptchaErrorClasses
       /\ (http.resp.body.errorId.ty = "int" /\ http.resp.body.errorId.n # 0)
          => outcome = Exc(ExpectedKind(http.resp.body.errorCode.s),
                           http.resp.body.errorId.n,
                           OptStrField(http.resp.body.errorCode),
                           OptStrField(http.resp.body.errorDescription))

-----------------------------------------------------------------------------
(* Properties of solve's defaults *)

\* What C19 says of the two arguments: a call without timeout polls within
\* the client's configured timeout, an explicit timeout (0 included) replaces
\* it, and a call without poll_interval uses 3.
ArgumentDefaults ==
    /\ (args.timeout = None) => (timeout = self.timeout)
    /\ (args.timeout # None) => (timeout = Get(args.timeout))
    /\ (args.timeout = Some(0)) => (timeout = 0 /\ nPolls = 0)
    /\ (~args.poll_interval_given) => (args.poll_interval = 3)

\* C19 as stated: the defaults above, and the polling budget of a call without
\* timeout is a separate, larger budget than the timeout applied to a single
\* HTTP request.
C19_BudgetLargerThanRequestTimeout ==
    (op = "solve")
    => /\ ArgumentDefaults
       /\ (args.timeout = None) => (timeout > http.timeout)

\* C19 as amended: the defaults above, and the polling budget of a call
\* without timeout is the very value the client's HTTP handle applies to each
\* single request, self.timeout: neither separate nor larger.
C19_BudgetIsRequestTimeout ==
    (op = "solve")
    => /\ ArgumentDefaults
       /\ http.timeout = self.timeout
       /\ self._client = Some(AsyncClient(self.timeout))
       /\ (args.timeout = None) => (timeout = http.timeout)

\* C19 witness: a call with neither argument slept 3 once and then timed out
\* on the client's timeout, which is also the timeout of its requests.
C19_Witness ==
    /\ SolveDone
    /\ args.timeout = None
    /\ ~args.poll_interval_given
    /\ nSleeps = 1
    /\ elapsed = 3
    /\ timeout = http.timeout
    /\ outcome.cls = "TaskTimeoutError"

-----------------------------------------------------------------------------
(* Properties of task validation *)

\* C20: constructing an HCaptchaClassification with an empty queries list
\* fails validation, just as constructing it without queries does, so no
\* /createTask request carries an empty queries list.
C20_EmptyQueriesRejected ==
    /\ (task.cls = "HCaptchaClassification" /\ task.kw.queries \in {PUnset, PList(<<>>)})
       => (task.state # "built")
    /\ (task.cls = "HCaptchaClassification" /\ http.endpoint = "/createTask")
       => Get(http.task)["queries"] # PList(<<>>)

-----------------------------------------------------------------------------
(* Properties of concurrent solve calls *)

\* How solve ends when it runs alone for task tid, polled k times so far,
\* against the service's script for that task.
RECURSIVE SoloPolls(_, _, _, _, _, _)
SoloPolls(tid, script, k, e, t, poll_interval) ==
    IF ~(e < t)
    THEN TaskTimeoutError(tid, t)
    ELSE LET o == get_task_result(ServiceAnswer(tid, script, k + 1)) IN
         IF o.kind = "raise" THEN o
         ELSE IF Get(o.value).status = Some("ready") /\ Get(o.value).solution # None
              THEN Returned(Get(Get(o.value).solution))
              ELSE SoloPolls(tid, script, k + 1, e + poll_interval, t, poll_interval)

\* The outcome call c would have had running alone.
SoloOutcome(c) ==
    LET ctl == calls.ctl[c] IN
    SoloPolls(Get(ctl.created), ctl.script, 0, 0,
              IF ctl.args.timeout = None THEN self.timeout ELSE Get(ctl.args.timeout),
              ctl.args.poll_interval)

\* C16: in every interleaving of two solve calls on one client, each call
\* polls only with the task id its own createTask returned; its task id,
\* timeout and elapsed counter are what they would be alone (elapsed is its
\* own completed sleeps times its poll interval); and it ends with the outcome it would
\* have had running alone against the same answers for its task.
C16_ConcurrentCallsIndependent ==
    \A c \in Calls :
        LET ctl == calls.ctl[c]
            loc == calls.loc[c]
        IN  /\ ctl.polled \subseteq {ctl.created}
            /\ (ctl.polled # {}) => Truthy(ctl.created)
            /\ (ctl.pc \notin {"idle", "create_task"})
               => /\ loc.task_id = ctl.created
                  /\ loc.elapsed = ctl.args.poll_interval *
                        (IF ctl.pc = "sleep" THEN ctl.nSleeps - 1 ELSE ctl.nSleeps)
                  /\ loc.timeout = IF ctl.args.timeout = None THEN self.timeout
                                                               ELSE Get(ctl.args.timeout)
            /\ (ctl.pc = "done") => (ctl.outcome = SoloOutcome(c))
            /\ (ctl.pc # "done") => (ctl.outcome = NoOutcome)

\* C16 witness: call 1 has returned its own task's solution after two polls
\* while call 2, which has polled its own task too, is asleep between polls.
C16_Witness ==
    /\ calls.ctl[1].pc = "done"
    /\ calls.ctl[1].nPolls = 2
    /\ calls.ctl[1].outcome.kind = "return"
    /\ calls.ctl[1].created = Some("task-2")
    /\ calls.ctl[2].pc = "sleep"
    /\ calls.ctl[2].nPolls = 2
    /\ calls.ctl[2].created = Some("task-1")

-----------------------------------------------------------------------------
(* Properties of a task's type field *)

\* C21: at every moment of a task's life its type is one of the strings
\* enumerated for its variant: an unknown value is rejected at construction,
\* no later operation (assignment to the field included) changes that, and
\* every /createTask payload carries an enumerated type.
C21_TypeAlwaysEnumerated ==
    /\ (task.kw.type.ty = "str" /\ task.kw.type.s \notin Task[task.cls].types)
       => task.state # "built"
    /\ (task.state = "built") => (task.obj.type.s \in Task[task.cls].types)
    /\ (http.endpoint = "/createTask")
       => (Get(http.task)["type"].s \in Task[task.cls].types)

-----------------------------------------------------------------------------
(* Properties of a task's serialization *)

\* The fields the caller must pass, those declared Optional[...] = None, and
\* those with a default that is not None.
RequiredFields(cls) == {f \in DOMAIN cls.fields : cls.fields[f].default = PUnset}

NullableFields(cls) == {f \in DOMAIN cls.fields : cls.fields[f].optional}

DefaultedFields(cls) == DOMAIN cls.fields \ (RequiredFields(cls) \cup NullableFields(cls))

\* The caller passed the keyword f with a value that is not None.
GivenNonNull(f) == task.kw[f].ty \notin {"unset", "none"}

\* A create_task call is under way: its payload carries the caller's task.
TaskSubmitted == op = "create_task" /\ http.endpoint = "/createTask"

\* C22 (as stated): the task object of a /createTask payload holds the
\* discriminator and every required field, each field the caller may leave
\* out if and only if it was given a value other than None, never None, and
\* nothing else; serializing the task again gives the same object.
C22_EveryOmittableFieldIffGiven ==
    TaskSubmitted =>
        LET cls == Task[task.cls]
            d == Get(http.task)
        IN  /\ "type" \in DOMAIN d
            /\ RequiredFields(cls) \subseteq DOMAIN d
            /\ \A f \in DOMAIN cls.fields \ RequiredFields(cls) :
                   f \in DOMAIN d <=> GivenNonNull(f)
            /\ \A f \in DOMAIN d : d[f] # PNone
            /\ DOMAIN d \subseteq {"type"} \cup DOMAIN cls.fields
            /\ model_dump(task.obj) = d

\* C22 (amended): as above, except that only the fields declared Optional
\* are present if and only if given; a field with a default other than None
\* (isInvisible, waitLoad, blockImage) is always present, with its default
\* when it was not given.
C22_NullableFieldIffGiven ==
    TaskSubmitted =>
        LET cls == Task[task.cls]
            d == Get(http.task)
        IN  /\ "type" \in DOMAIN d
            /\ RequiredFields(cls) \subseteq DOMAIN d
            /\ \A f \in NullableFields(cls) : f \in DOMAIN d <=> GivenNonNull(f)
            /\ \A f \in DefaultedFields(cls) :
                   /\ f \in DOMAIN d
                   /\ d[f] = IF GivenNonNull(f) THEN task.kw[f]
                                                ELSE cls.fields[f].default
            /\ \A f \in DOMAIN d : d[f] # PNone
            /\ DOMAIN d \subseteq {"type"} \cup DOMAIN cls.fields
            /\ model_dump(task.obj) = d
            /\ model_dump(d) = d

\* A CloudFlareTask is submitted with one Optional field given, one passed
\* as None, one left out, one flag given and one left out, and a keyword
\* that names no field.
C22_Witness ==
    /\ TaskSubmitted
    /\ task.cls = "CloudFlareTask"
    /\ task.kw.userAgent = PStr("0x1234")
    /\ task.kw.postData = PNone
    /\ task.kw.requiredCookies = PUnset
    /\ task.kw.blockImage = PBool(TRUE)
    /\ task.kw.waitLoad = PUnset
    /\ task.kw[UnknownKeyword] # PUnset
    /\ DOMAIN Get(http.task)
         = {"type", "websiteURL", "proxy", "userAgent", "waitLoad", "blockImage"}

-----------------------------------------------------------------------------
(* Properties of a Solution's deserialization *)

\* get_task_result has returned a response with a Solution, or solve has
\* returned a Solution: it was deserialized from the last response body.
SolutionDeserialized ==
    /\ pc = "done"
    /\ outcome.kind = "return"
    /\ \/ op = "solve"
       \/ op = "get_task_result" /\ Get(outcome.value).solution # None

DeserializedSolution ==
    IF op = "solve" THEN Get(outcome.value) ELSE Get(Get(outcome.value).solution)

\* The Python value x is the JSON value j as the service sent it.
KeptAs(j, x) ==
    CASE j.ty = "absent" -> x = None
      [] j.ty = "str"    -> x = Some(j.s)
      [] j.ty = "list"   -> /\ x # None
                            /\ DOMAIN Get(x) = DOMAIN j.v
                            /\ \A i \in DOMAIN j.v : j.v[i] = JInt(Get(x)[i])
      [] j.ty = "obj"    -> /\ x # None
                            /\ DOMAIN Get(x) = DOMAIN j.v
                            /\ \A k \in DOMAIN j.v : j.v[k] = JStr(Get(x)[k])
      [] OTHER           -> FALSE

\* Every key the class does not declare is retrievable with its value.
ExtrasKept(j, sol) ==
    \A k \in DOMAIN j.v \ SolutionFields :
        k \in DOMAIN sol.model_extra /\ sol.model_extra[k] = j.v[k]

\* C23 (as stated): a deserialized Solution, the one solve returns included,
\* holds every well-known field with the value the service sent and every
\* unrecognized key with its value.
C23_EveryFieldKept ==
    SolutionDeserialized =>
        LET j == http.resp.body.solution
            sol == DeserializedSolution
        IN  /\ \A f \in SolutionFields : KeptAs(Member(j, f), sol[f])
            /\ ExtrasKept(j, sol)

\* C23 (amended): as above, except that an element of objects sent as a
\* numeric string is held as the integer it denotes.
C23_EveryFieldKeptOrConverted ==
    SolutionDeserialized =>
        LET j == http.resp.body.solution
            sol == DeserializedSolution
            objects == Member(j, "objects")
        IN  /\ \A f \in SolutionFields \ {"objects"} : KeptAs(Member(j, f), sol[f])
            /\ objects.ty = "absent" => sol.objects = None
            /\ objects.ty = "list" =>
                 /\ sol.objects # None
                 /\ DOMAIN Get(sol.objects) = DOMAIN objects.v
                 /\ \A i \in DOMAIN objects.v :
                        LET e == objects.v[i]
                            x == Get(sol.objects)[i]
                        IN  \/ e = JInt(x)
                            \/ e.ty = "str" /\ IntStrings[e.s] = x
            /\ ExtrasKept(j, sol)

\* solve returns the Solution of a body that has a token, indexes and a key
\* the class does not declare.
C23_Witness ==
    /\ SolveDone
    /\ outcome.kind = "return"
    /\ Member(http.resp.body.solution, "customField") = JStr("customValue")
    /\ Get(outcome.value).token = Some("token-1")
    /\ Get(outcome.value).objects = Some(<<0, 2>>)
    /\ Get(outcome.value).model_extra["customField"] = JStr("customValue")

-----------------------------------------------------------------------------
(* Properties of the client object *)

\* C24: no operation changes client_key, base_url or timeout, whether it
\* returns or raises; the client's only other attribute is the HTTP handle,
\* so it holds no record of any task (the task id is a local of solve).
C24_OnlyTheHandleChanges ==
    /\ [](/\ DOMAIN self = {"client_key", "base_url", "timeout", "_client"}
          /\ self._client # None => DOMAIN Get(self._client) = {"timeout"})
    /\ [][ /\ self'.client_key = self.client_key
           /\ self'.base_url = self.base_url
           /\ self'.timeout = self.timeout ]_vars

\* A solve call has created a task, polled it and raised, and the client
\* holds its configuration and an HTTP handle.
C24_Witness ==
    /\ SolveDone
    /\ outcome.kind = "raise"
    /\ task_id = Some("task-1")
    /\ nPolls = 2
    /\ self.client_key = "key"
    /\ self.base_url = "https://api.yescaptcha.com"
    /\ self._client = Some(AsyncClient(self.timeout))

-----------------------------------------------------------------------------
(* Properties of the number of polls before a timeout *)

\* The smallest n >= k with n * x >= t in exact arithmetic, acc being k * x.
RECURSIVE SmallestMultiple(_, _, _, _)
SmallestMultiple(k, acc, x, t) ==
    IF ~FloatLess(acc, t) THEN k ELSE SmallestMultiple(k + 1, ExactSum(acc, x), x, t)

\* solve raises its timeout: the loop condition has just failed.
TimeoutRaised == op = "solve" /\ pc = "while" /\ pc' = "done"

\* C25: when solve raises its timeout (no poll was ready, none failed) it
\* has sent one /createTask request and exactly n /getTaskResult requests,
\* n the smallest integer >= 0 with n * poll_interval >= timeout (0 when the
\* timeout is 0), and it has slept once after each poll, the last included.
C25_PollsBeforeTimeout ==
    [][ TimeoutRaised
        => /\ nPolls = SmallestMultiple(0, float("0.0"), args.poll_interval, timeout)
           /\ nSleeps = nPolls
           /\ nCreate = 1
           /\ UNCHANGED <<nPolls, nSleeps, nCreate>> ]_vars

-----------------------------------------------------------------------------
(* Properties of solve's termination *)

-----------------------------------------------------------------------------
(* Properties of the value solve returns *)

\* C27: whenever solve has returned, its value is the Solution of the last
\* /getTaskResult response, which had errorId 0, status "ready" and a
\* solution object; and a poll answered by a success envelope that lacks
\* either the status "ready" or the solution makes solve sleep and go on.
C27_ReturnsSolutionOfReadyResponse ==
    /\ []((SolveDone /\ outcome.kind = "return")
          => /\ http.endpoint = "/getTaskResult"
             /\ http.state = "answered"
             /\ http.resp.kind = "json"
             /\ http.resp.body.errorId = JInt(0)
             /\ http.resp.body.status = JStr("ready")
             /\ http.resp.body.solution.ty = "obj"
             /\ outcome.value = Some(Solution(http.resp.body.solution))
             /\ result.solution = outcome.value)
    /\ [][ ( /\ PollAnswered
             /\ get_task_result(http'.resp).kind = "return"
             /\ \/ http'.resp.body.status # JStr("ready")
                \/ http'.resp.body.solution.ty # "obj" )
           => /\ pc' = "sleep"
              /\ nSleeps' = nSleeps + 1
              /\ outcome' = NoOutcome ]_vars

\* solve has returned the Solution of its second poll, the first having been
\* answered "ready" without a solution.
C27_Witness ==
    /\ SolveDone
    /\ outcome.kind = "return"
    /\ nPolls = 2
    /\ nSleeps = 1
    /\ http.resp.body.status = JStr("ready")
    /\ Get(outcome.value).token = Some("token-1")

-----------------------------------------------------------------------------
(* Properties of the AsyncClient handle *)

\* Coroutine c calls the method m of self in this step.
Calls_(c, m) ==
    /\ Free(c)
    /\ handles'.co[c] # handles.co[c]
    /\ handles'.co[c].method = m

\* self references no handle, or one handle that was made.
AtMostOneHandle ==
    self._client = None \/ \E h \in 1..Len(handles.is_closed) : self._client = Some(h)

\* A request made while self holds no handle makes a new, open one and is
\* sent on it.
LazyOpen ==
    \A c \in Coroutines :
        (Calls_(c, "_request") /\ self._client = None)
        => /\ self'._client = Some(NewHandle)
           /\ handles'.is_closed = Append(handles.is_closed, FALSE)
           /\ handles'.co[c].handle = Some(NewHandle)
           /\ handles'.co[c].pc = "post"

\* close() or __aexit__ called while self holds no handle returns at once
\* and changes neither self nor any handle.
CloseWithoutHandleIsNoOp ==
    \A c \in Coroutines :
        ((Calls_(c, "close") \/ Calls_(c, "__aexit__")) /\ self._client = None)
        => /\ self' = self
           /\ handles'.is_closed = handles.is_closed
           /\ handles'.co[c].pc = "done"
           /\ handles'.co[c].outcome = "return"

\* When close() or __aexit__ completes self holds no handle, and self comes
\* to hold one only by a call that starts.
AbsentAfterClose ==
    /\ \A c \in Coroutines :
           (handles.co[c].method \in {"close", "__aexit__"}
            /\ handles.co[c].pc # "done" /\ handles'.co[c].pc = "done")
           => self'._client = None
    /\ (self._client = None /\ self'._client # None)
       => \E c \in Coroutines : Calls_(c, "_request") \/ Calls_(c, "__aenter__")

\* No request is sent on a handle that close() or __aexit__ has closed.
ClosedHandleNotUsed ==
    \A c \in Coroutines :
        Calls_(c, "_request")
        => LET h == Get(handles'.co[c].handle)
           IN  h \in 1..Len(handles.is_closed) => ~handles.is_closed[h]

\* The clauses of C28 that hold of the client.
HandleLifecycle ==
    /\ []AtMostOneHandle
    /\ [][LazyOpen /\ CloseWithoutHandleIsNoOp /\ AbsentAfterClose]_vars

\* C28: under every interleaving of requests, close() and context-manager
\* entry and exit on one client, self references at most one handle, a
\* request without a handle opens one, closing without a handle is a no-op,
\* the handle is absent once close() has completed until a call starts, and
\* no request is sent on a handle that close() has closed.
C28_HandleLifecycle ==
    /\ HandleLifecycle
    /\ [][ClosedHandleNotUsed]_vars

=============================================================================
